---- MODULE Spec2Model ----
(***************************************************************************)
(* go-vcr: the cassette (lookup, append, save, load), the default matcher  *)
(* and the recorder's mode state machine (New, RoundTrip, Stop).           *)
(*                                                                         *)
(* Sources: src/unnamed/part_004 (package cassette, v4) and                *)
(* src/pkg/recorder/recorder.go (package recorder, v4).                    *)
(*                                                                         *)
(* Representation.  A Go collection that may be nil (http.Header,          *)
(* url.Values, []string) is a set; the nil collection is the distinguished *)
(* set NilColl, so that nil and empty stay different values.  A header or  *)
(* form entry is a pair <<key, value>>.  A body is a sequence of tokens,   *)
(* its length is the content length, and a form body is the sequence of    *)
(* its key=value pairs.  A URL is the pair <<path, raw query>>.            *)
(***************************************************************************)
EXTENDS Integers, Sequences, FiniteSets, TLC

VARIABLES
    disk,        \* the cassette file on disk
    recState,    \* "none" (no recorder), "ready" (New succeeded), "failed"
    mode,        \* Recorder.mode
    blockUnsafeMethods, \* Recorder.blockUnsafeMethods
    skipRequestLatency, \* Recorder.skipRequestLatency
    passthroughs,\* Recorder.passthroughs, in registration order
    hooks,       \* Recorder.hooks, in registration order
    cassette,    \* Recorder.cassette
    last,        \* what the last operation did and returned
    runLog,      \* the requests given to the current recorder, in order
    clean,       \* no request of runLog was cancelled or failed in transport
    stopped,     \* Stop was called on the current recorder
    runs,        \* number of recorders constructed so far
    mu,          \* Cassette's mutex: 0 when free, else the goroutine holding it
    procs,       \* per goroutine: the call it is in and where it is in it
    hist         \* the calls goroutines have completed, in order

vars == <<disk, recState, mode, blockUnsafeMethods, skipRequestLatency,
          passthroughs, hooks, cassette, last, runLog, clean, stopped, runs,
          mu, procs, hist>>

----------------------------------------------------------------------------
(* Bounds *)

\* RoundTrip calls made through one recorder.
MaxRequests == 3

\* Recorders constructed one after another on the same cassette file.
MaxRuns == 2

\* Interactions a cassette holds; a request that would record one more is
\* not made.
MaxInteractions == 3

\* Goroutines that call into one cassette or recorder at the same time.
MaxGoroutines == 2

\* The number of calls made in the runs under fair scheduling.
MaxFairCalls == 2

Goroutines == 1..MaxGoroutines

\* A goroutine that is in no call.
Idle == [pc |-> "idle", op |-> "none", req |-> <<>>, idx |-> 0, ptr |-> 0,
         ia |-> <<>>]

\* No goroutine is in a call and none has made one.
NoCalls ==
    /\ mu = 0
    /\ procs = [p \in Goroutines |-> Idle]
    /\ hist = <<>>

\* A step of a program that makes its calls one after another.
Sequential == UNCHANGED <<mu, procs, hist>>

----------------------------------------------------------------------------
(* Program constants and errors *)

CassetteFormatVersion == 2

ModeRecordOnly == 0
ModeReplayOnly == 1
ModeReplayWithNewEpisodes == 2
ModeRecordOnce == 3
ModePassthrough == 4

NoErr == "nil"
ErrInteractionNotFound == "requested interaction not found"
ErrCassetteNotFound == "requested cassette not found"
ErrUnsupportedCassetteFormat == "unsupported cassette version format"
ErrInvalidMode == "invalid recorder mode"
ErrNoCassetteName == "no cassette name specified"
ErrUnsafeRequestMethod == "request has unsafe method"
ErrContextCanceled == "context canceled"
ErrTransport == "transport error"
ErrHook == "hook error"
ErrDumpRequest == "http: ContentLength with Body length 0"
ErrReadBody == "unexpected EOF"
\* The error of os.ReadFile on a missing file (os.IsNotExist).
ErrNotExist == "no such file or directory"

AfterCaptureHook == 0
BeforeSaveHook == 1
BeforeResponseReplayHook == 2
OnRecorderStopHook == 3

----------------------------------------------------------------------------
(* Data *)

NilColl == {<<"nil", "nil">>}
NilBody == <<<<"nil", "nil">>>>
NoBody == <<>>

LenColl(x) == IF x = NilColl THEN 0 ELSE Cardinality(x)

FormContentType == <<"Content-Type", "application/x-www-form-urlencoded">>

\* http.NewRequest(method, url, strings.NewReader(body)) as the tests build
\* their requests, plus an optional form content type.
NewRequest(method, path, query, body, form) ==
    [Method |-> method, URL |-> <<path, query>>,
     Proto |-> "HTTP/1.1", ProtoMajor |-> 1, ProtoMinor |-> 1,
     Header |-> IF form THEN {FormContentType} ELSE {},
     Body |-> IF body = <<>> THEN NoBody ELSE body,
     ContentLength |-> Len(body),
     TransferEncoding |-> NilColl, Host |-> "example.com",
     Form |-> NilColl, PostForm |-> NilColl, Trailer |-> NilColl,
     RemoteAddr |-> "", RequestURI |-> ""]

GetFoo == NewRequest("GET", "/foo", <<>>, <<>>, FALSE)
GetBar == NewRequest("GET", "/bar", <<>>, <<>>, FALSE)
PostFoo == NewRequest("POST", "/foo", <<>>, <<<<"x", "1">>>>, TRUE)
PostFooQuery == NewRequest("POST", "/foo", <<<<"q", "1">>>>, <<<<"x", "1">>>>, TRUE)
PostBar == NewRequest("POST", "/bar", <<>>, <<<<"x", "1">>>>, TRUE)


\* url.ParseQuery on a sequence of key=value pairs.
ParseQuery(s) == {s[k] : k \in 1..Len(s)}

----------------------------------------------------------------------------
(* Matcher *)

\* net/http parsePostForm, as reached from Request.ParseForm: a body with
\* the form content type is read to its end and parsed; r.Body is left
\* drained.
parsePostForm(r) ==
    IF r.Body = NilBody
    THEN [vs |-> NilColl, r |-> r]
    ELSE IF r.Header # NilColl /\ FormContentType \in r.Header
         THEN [vs |-> ParseQuery(r.Body), r |-> [r EXCEPT !.Body = NoBody]]
         ELSE [vs |-> NilColl, r |-> r]

\* Request.ParseForm, first half: r.PostForm is what parsePostForm returned,
\* p = [vs, r], or an empty map when that is nil.
parseFormBody(p) ==
    [p.r EXCEPT !.PostForm = IF p.vs = NilColl THEN {} ELSE p.vs]

\* Request.ParseForm, second half: r.Form is r.PostForm and the values of the
\* URL query, unless it is set already.
parseFormQuery(r) ==
    IF r.Form = NilColl
    THEN [r EXCEPT !.Form = r.PostForm \cup ParseQuery(r.URL[2])]
    ELSE r

\* net/http Request.ParseForm: fills r.PostForm from the body (POST, PUT,
\* PATCH) and r.Form from r.PostForm and the URL query; idempotent.
ParseForm(r) ==
    parseFormQuery(
        parseFormBody(
            IF r.PostForm = NilColl /\ r.Method \in {"POST", "PUT", "PATCH"}
            THEN parsePostForm(r)
            ELSE [vs |-> r.PostForm, r |-> r]))

\* reflect.DeepEqual alone, for which nil and an empty collection differ.
reflectDeepEqual(x, y) == x = y

\* defaultMatcher.deepEqualContents
deepEqualContents(x, y) ==
    IF x = NilColl
    THEN IF y = NilColl THEN TRUE ELSE LenColl(y) = 0
    ELSE IF y = NilColl THEN LenColl(x) = 0 ELSE x = y

\* The body is read in full and put back, so r is unchanged.
bodyMatches(r, i) ==
    IF r.Body # NilBody
    THEN r.Body = i.Body
    ELSE Len(i.Body) = 0

\* delete(header, name) for every ignored name, on a clone.
DeleteHeaders(h, names) ==
    IF h = NilColl THEN NilColl ELSE {e \in h : e[1] \notin names}

\* matcherForm without the comparison of the request URI.
matcherFormSkipsRequestURI(r, i) ==
    [ok |-> /\ deepEqualContents(r.Form, i.Form)
            /\ deepEqualContents(r.Trailer, i.Trailer)
            /\ r.RemoteAddr = i.RemoteAddr,
     r |-> r]

\* defaultMatcher.matcher after its call of r.ParseForm: r is the request as
\* ParseForm has left it.
matcherForm(r, i) ==
    [ok |-> /\ deepEqualContents(r.Form, i.Form)
            /\ deepEqualContents(r.Trailer, i.Trailer)
            /\ r.RemoteAddr = i.RemoteAddr
            /\ r.RequestURI = i.RequestURI,
     r |-> r]

\* defaultMatcher.matcher: [ok, r] where r is the live request as the matcher
\* leaves it (ParseForm may have filled r.Form and drained r.Body).
matcher(ignoreHeaders, r, i) ==
    IF r.Method # i.Method THEN [ok |-> FALSE, r |-> r]
    ELSE IF r.URL # i.URL THEN [ok |-> FALSE, r |-> r]
    ELSE IF r.Proto # i.Proto THEN [ok |-> FALSE, r |-> r]
    ELSE IF r.ProtoMajor # i.ProtoMajor THEN [ok |-> FALSE, r |-> r]
    ELSE IF r.ProtoMinor # i.ProtoMinor THEN [ok |-> FALSE, r |-> r]
    ELSE IF ~deepEqualContents(DeleteHeaders(r.Header, ignoreHeaders),
                               DeleteHeaders(i.Headers, ignoreHeaders))
         THEN [ok |-> FALSE, r |-> r]
    ELSE IF ~bodyMatches(r, i) THEN [ok |-> FALSE, r |-> r]
    ELSE IF r.ContentLength # i.ContentLength THEN [ok |-> FALSE, r |-> r]
    ELSE IF ~deepEqualContents(r.TransferEncoding, i.TransferEncoding)
         THEN [ok |-> FALSE, r |-> r]
    ELSE IF r.Host # i.Host THEN [ok |-> FALSE, r |-> r]
    ELSE matcherForm(IF r.Method \in {"POST", "PUT", "PATCH"}
                     THEN ParseForm(r) ELSE r, i)

DefaultMatcher(r, i) == matcher({}, r, i)

\* The custom matcher of the README: method, URL and body; the default
\* matcher for a request without a body.  It puts the body back.
customMatcher(r, i) ==
    IF r.Body = NilBody \/ r.Body = NoBody
    THEN DefaultMatcher(r, i)
    ELSE [ok |-> r.Method = i.Method /\ r.URL = i.URL /\ r.Body = i.Body,
          r |-> r]

\* The header names given to WithIgnoreUserAgent, WithIgnoreAuthorization and
\* WithIgnoreHeaders.
IgnoredHeaders == {"User-Agent", "Authorization", "Header-One"}

\* NewDefaultMatcher(WithIgnoreHeaders("Header-One"), WithIgnoreUserAgent(),
\* WithIgnoreAuthorization())
IgnoringMatcher(r, i) == matcher(IgnoredHeaders, r, i)

\* Cassette.Matcher is one of these function values.
Matchers == {"DefaultMatcher", "customMatcher"}

ApplyMatcher(m, r, i) ==
    IF m = "customMatcher" THEN customMatcher(r, i)
    ELSE IF m = "IgnoringMatcher" THEN IgnoringMatcher(r, i)
    ELSE DefaultMatcher(r, i)

----------------------------------------------------------------------------
(* Cassette *)

\* The nil *Cassette that is returned with an error.
NoCassette == <<>>

IsNilCassette(c) == DOMAIN c = {}

\* cassette.New
New(name) ==
    [Name |-> name, Version |-> CassetteFormatVersion, Interactions |-> <<>>,
     Matcher |-> "DefaultMatcher", ReplayableInteractions |-> FALSE,
     IsNew |-> TRUE, nextInteractionId |-> 0]

\* The cassette file: absent, or a YAML document with a version and the
\* interactions; truncated when a write failed after os.Create emptied it.
NoFile == [exists |-> FALSE, truncated |-> FALSE, Version |-> 0,
           Interactions |-> <<>>]

\* A nil map or slice is written as {} or [], which is read back as an
\* empty one.
Encoded(x) == IF x = NilColl THEN {} ELSE x

MarshalRequest(q) ==
    [q EXCEPT !.TransferEncoding = Encoded(q.TransferEncoding),
              !.Trailer = Encoded(q.Trailer),
              !.Form = Encoded(q.Form),
              !.Headers = Encoded(q.Headers)]

\* yaml.Unmarshal of one interaction: the fields tagged yaml:"-" keep their
\* zero value.
Unmarshal(p) ==
    [ID |-> p.ID, Request |-> p.Request, Response |-> p.Response,
     DiscardOnSave |-> FALSE, replayed |-> FALSE]

\* yaml.Marshal of one interaction: the fields tagged yaml:"-" are left out.
Marshal(i) ==
    [ID |-> i.ID, Request |-> MarshalRequest(i.Request), Response |-> i.Response]

\* Load that leaves the cassette's id counter and IsNew as cassette.New set
\* them.
LoadAsNew(name, file) ==
    IF ~file.exists
    THEN [err |-> ErrNotExist, c |-> NoCassette]
    ELSE IF file.truncated
    THEN [err |-> NoErr, c |-> New(name)]
    ELSE IF file.Version # CassetteFormatVersion
    THEN [err |-> ErrUnsupportedCassetteFormat, c |-> NoCassette]
    ELSE [err |-> NoErr,
          c |-> [New(name) EXCEPT
                   !.Version = file.Version,
                   !.Interactions = [k \in 1..Len(file.Interactions) |->
                                        Unmarshal(file.Interactions[k])]]]

\* Load without the check of the file's version.
LoadAnyVersion(name, file) ==
    IF ~file.exists
    THEN [err |-> ErrNotExist, c |-> NoCassette]
    ELSE [err |-> NoErr,
          c |-> [New(name) EXCEPT
                   !.IsNew = FALSE,
                   !.Version = file.Version,
                   !.Interactions = [k \in 1..Len(file.Interactions) |->
                                        Unmarshal(file.Interactions[k])],
                   !.nextInteractionId = Len(file.Interactions)]]

\* cassette.Load: [err, c].
Load(name, file) ==
    IF ~file.exists
    THEN [err |-> ErrNotExist, c |-> NoCassette]
    ELSE IF file.truncated
    THEN [err |-> NoErr, c |-> [New(name) EXCEPT !.IsNew = FALSE]]
    ELSE IF file.Version # CassetteFormatVersion
    THEN [err |-> ErrUnsupportedCassetteFormat, c |-> NoCassette]
    ELSE [err |-> NoErr,
          c |-> [New(name) EXCEPT
                   !.IsNew = FALSE,
                   !.Version = file.Version,
                   !.Interactions = [k \in 1..Len(file.Interactions) |->
                                        Unmarshal(file.Interactions[k])],
                   !.nextInteractionId = Len(file.Interactions)]]

\* Cassette.AddInteraction
AddInteraction(c, i) ==
    [c EXCEPT !.Interactions = Append(c.Interactions,
                                      [i EXCEPT !.ID = c.nextInteractionId]),
              !.nextInteractionId = c.nextInteractionId + 1]

\* The loop of Cassette.getInteraction from position k on; r is the live
\* request as the matcher calls made so far have left it.
RECURSIVE scan(_, _, _)

\* One turn of the loop at position k, the matcher having answered m = [ok, r].
scanMatched(c, m, k) ==
    IF m.ok THEN [idx |-> k, r |-> m.r] ELSE scan(c, m.r, k + 1)

\* scan that skips a replayed interaction whatever ReplayableInteractions is.
scanSkipReplayed(c, r, k) ==
    IF k > Len(c.Interactions)
    THEN [idx |-> 0, r |-> r]
    ELSE IF ~c.Interactions[k].replayed
         THEN scanMatched(c, ApplyMatcher(c.Matcher, r,
                                          c.Interactions[k].Request), k)
         ELSE scan(c, r, k + 1)

scan(c, r, k) ==
    IF k > Len(c.Interactions)
    THEN [idx |-> 0, r |-> r]
    ELSE IF c.ReplayableInteractions \/ ~c.Interactions[k].replayed
         THEN scanMatched(c, ApplyMatcher(c.Matcher, r,
                                          c.Interactions[k].Request), k)
         ELSE scan(c, r, k + 1)

\* r.Body = http.NoBody when r.Body is nil.
withNoBody(r) == IF r.Body = NilBody THEN [r EXCEPT !.Body = NoBody] ELSE r

\* found without the assignment i.replayed = true.
foundUnmarked(c, s) ==
    [err |-> IF s.idx # 0 THEN NoErr ELSE ErrInteractionNotFound,
     idx |-> s.idx, r |-> s.r, c |-> c]

\* The end of getInteraction, the loop having ended with s = [idx, r].
found(c, s) ==
    IF s.idx # 0
    THEN [err |-> NoErr, idx |-> s.idx, r |-> s.r,
          c |-> [c EXCEPT !.Interactions[s.idx].replayed = TRUE]]
    ELSE [err |-> ErrInteractionNotFound, idx |-> 0, r |-> s.r, c |-> c]


\* Cassette.getInteraction: [err, idx, c, r]; idx is the position of the
\* returned interaction (0 when none), c the cassette and r the live request
\* afterwards.
getInteraction(c, r) == found(c, scan(c, withNoBody(r), 1))

\* The filter loop of Cassette.Save: the interactions not flagged
\* DiscardOnSave, renumbered from nextId on.
RECURSIVE keep(_, _)

\* keep without the assignment i.ID = nextId.
keepUnnumbered(is, nextId) ==
    IF is = <<>> THEN <<>>
    ELSE IF ~Head(is).DiscardOnSave
         THEN <<Head(is)>> \o keep(Tail(is), nextId + 1)
         ELSE keep(Tail(is), nextId)

keep(is, nextId) ==
    IF is = <<>> THEN <<>>
    ELSE IF ~Head(is).DiscardOnSave
         THEN <<[Head(is) EXCEPT !.ID = nextId]>> \o keep(Tail(is), nextId + 1)
         ELSE keep(Tail(is), nextId)

\* What can go wrong in Save: nothing, os.Create fails, f.Write fails.
SaveFaults == {"none", "create", "write"}

\* writeFile that opens the file for appending instead of creating it anew.
appendFile(c, file, fault) ==
    IF fault = "create"
    THEN [err |-> "create failed", c |-> c, file |-> file]
    ELSE IF fault = "write"
    THEN [err |-> "write failed", c |-> c,
          file |-> [exists |-> TRUE, truncated |-> TRUE, Version |-> 0,
                    Interactions |-> <<>>]]
    ELSE [err |-> NoErr, c |-> c,
          file |-> [exists |-> TRUE, truncated |-> FALSE,
                    Version |-> c.Version,
                    Interactions |->
                       file.Interactions \o
                       [k \in 1..Len(c.Interactions) |->
                           Marshal(c.Interactions[k])]]]

\* Cassette.Save from yaml.Marshal on: c holds the interactions kept.
writeFile(c, file, fault) ==
    IF fault = "create"
    THEN [err |-> "create failed", c |-> c, file |-> file]
    ELSE IF fault = "write"
    THEN [err |-> "write failed", c |-> c,
          file |-> [exists |-> TRUE, truncated |-> TRUE, Version |-> 0,
                    Interactions |-> <<>>]]
    ELSE [err |-> NoErr, c |-> c,
          file |-> [exists |-> TRUE, truncated |-> FALSE,
                    Version |-> c.Version,
                    Interactions |-> [k \in 1..Len(c.Interactions) |->
                                         Marshal(c.Interactions[k])]]]

\* Save that writes the interactions kept and leaves c.Interactions as it is.
SaveKeepsMemory(c, file, fault) ==
    [writeFile([c EXCEPT !.Interactions = keep(c.Interactions, 0)], file, fault)
        EXCEPT !.c = c]

\* Cassette.Save: [err, c, file]; file is the cassette file afterwards.
Save(c, file, fault) ==
    writeFile([c EXCEPT !.Interactions = keep(c.Interactions, 0)], file, fault)

----------------------------------------------------------------------------
(* Hooks, passthrough predicates, real transport *)

\* The hook functions a test registers: [err, i] for interaction i.
HookFuncs == {"fail", "failGet", "failPost", "discardPost", "setBodyCaptured",
              "setBodySaved", "setBodyReplayed", "markCaptured", "markSaved",
              "markReplayed", "markStopped", "noop"}

\* The response header a marking hook sets.
Mark(v) == <<"X-Hook", v>>

\* i.Response.Headers.Add of a mark that is not there yet.
AddMark(i, v) ==
    [i EXCEPT !.Response.Headers = i.Response.Headers \cup {Mark(v)}]

HookFunc(h, i) ==
    CASE h = "fail" -> [err |-> ErrHook, i |-> i]
      [] h = "failGet" ->
            [err |-> IF i.Request.Method = "GET" THEN ErrHook ELSE NoErr,
             i |-> i]
      [] h = "failPost" ->
            [err |-> IF i.Request.Method = "POST" THEN ErrHook ELSE NoErr,
             i |-> i]
      [] h = "markCaptured" -> [err |-> NoErr, i |-> AddMark(i, "captured")]
      [] h = "markSaved" -> [err |-> NoErr, i |-> AddMark(i, "saved")]
      [] h = "markReplayed" -> [err |-> NoErr, i |-> AddMark(i, "replayed")]
      [] h = "markStopped" -> [err |-> NoErr, i |-> AddMark(i, "stopped")]
      [] h = "discardPost" ->
            [err |-> NoErr,
             i |-> IF i.Request.Method = "POST"
                   THEN [i EXCEPT !.DiscardOnSave = TRUE] ELSE i]
      [] h = "setBodyCaptured" ->
            [err |-> NoErr, i |-> [i EXCEPT !.Response.Body = <<"captured", 0>>]]
      [] h = "setBodySaved" ->
            [err |-> NoErr, i |-> [i EXCEPT !.Response.Body = <<"saved", 0>>]]
      [] h = "setBodyReplayed" ->
            [err |-> NoErr, i |-> [i EXCEPT !.Response.Body = <<"replayed", 0>>]]
      [] OTHER -> [err |-> NoErr, i |-> i]

\* ran, then what the rest of a loop ran.
prependRan(ran, rest) == [rest EXCEPT !.ran = ran \o rest.ran]

\* The handlers of ran as <<kind, handler, position of the interaction>>.
tagRan(kind, ran, k) == [n \in 1..Len(ran) |-> <<kind, ran[n], k>>]

RECURSIVE applyHooksFrom(_, _, _, _)

\* applyHooksRan that goes on to the next hook after an error.
applyHooksRanAfterError(hs, h, kind, k) ==
    prependRan(<<hs[k].Handler>>, applyHooksFrom(hs, h.i, kind, k + 1))

\* One turn of the loop of applyHooks, hook k having returned h = [err, i].
applyHooksRan(hs, h, kind, k) ==
    IF h.err # NoErr
    THEN [err |-> h.err, i |-> h.i, ran |-> <<hs[k].Handler>>]
    ELSE prependRan(<<hs[k].Handler>>, applyHooksFrom(hs, h.i, kind, k + 1))

\* Recorder.applyHooks from hook k on: [err, i, ran]; ran lists the handlers
\* invoked, in order.
applyHooksFrom(hs, i, kind, k) ==
    IF k > Len(hs) THEN [err |-> NoErr, i |-> i, ran |-> <<>>]
    ELSE IF hs[k].Kind = kind
         THEN applyHooksRan(hs, HookFunc(hs[k].Handler, i), kind, k)
         ELSE applyHooksFrom(hs, i, kind, k + 1)

applyHooks(hs, i, kind) == applyHooksFrom(hs, i, kind, 1)

RECURSIVE applyHooksAll(_, _, _, _)

\* One turn of such a loop, applyHooks on interaction k having returned a.
applyHooksAllRan(hs, is, kind, k, a) ==
    IF a.err # NoErr
    THEN [err |-> a.err, is |-> [is EXCEPT ![k] = a.i],
          ran |-> tagRan(kind, a.ran, k)]
    ELSE prependRan(tagRan(kind, a.ran, k),
                    applyHooksAll(hs, [is EXCEPT ![k] = a.i], kind, k + 1))

\* The loops over rec.cassette.Interactions in persistCassette and Stop:
\* the hooks of one kind on every interaction from position k on, stopping
\* at the first error.  [err, is, ran]; ran lists <<kind, handler, position>>.
applyHooksAll(hs, is, kind, k) ==
    IF k > Len(is) THEN [err |-> NoErr, is |-> is, ran |-> <<>>]
    ELSE applyHooksAllRan(hs, is, kind, k, applyHooks(hs, is[k], kind))

\* The passthrough predicates a test registers.
PassthroughFuncs == {"isBar", "isPost"}

PassthroughFunc(p, r) ==
    IF p = "isBar" THEN r.URL[1] = "/bar" ELSE r.Method = "POST"

\* The loop over rec.passthroughs in RoundTrip from predicate k on:
\* [fired, evaluated]; evaluated lists the predicates called, in order.
RECURSIVE passthroughFrom(_, _, _)

prependEvaluated(p, rest) == [rest EXCEPT !.evaluated = <<p>> \o rest.evaluated]

passthroughFrom(ps, r, k) ==
    IF k > Len(ps) THEN [fired |-> FALSE, evaluated |-> <<>>]
    ELSE IF PassthroughFunc(ps[k], r)
         THEN [fired |-> TRUE, evaluated |-> <<ps[k]>>]
         ELSE prependEvaluated(ps[k], passthroughFrom(ps, r, k + 1))

SafeMethods == {"GET", "HEAD", "OPTIONS", "TRACE"}

\* What is left to read of r.Body.
BodyContent(r) == IF r.Body = NilBody THEN <<>> ELSE r.Body

\* What the server answers: the echo server of the tests.
ServerResponse(r) ==
    [Status |-> "200 OK", StatusCode |-> 200, Header |-> {},
     Body |-> <<r.Method, Len(BodyContent(r))>>]

\* What can go wrong in the real round trip: nothing, the transport returns
\* an error, or the response body cannot be read to its end.
TransportFaults == {"none", "transport", "read"}

\* rec.getRoundTripper().RoundTrip(r): [err, calls, resp, readErr]; calls is
\* the number of calls of rec.realTransport, readErr what reading resp.Body
\* will return.
realRoundTrip(block, r, fails) ==
    IF block /\ r.Method \notin SafeMethods
    THEN [err |-> ErrUnsafeRequestMethod, calls |-> 0, resp |-> <<>>,
          readErr |-> FALSE]
    ELSE IF fails = "transport"
    THEN [err |-> ErrTransport, calls |-> 1, resp |-> <<>>, readErr |-> FALSE]
    ELSE [err |-> NoErr, calls |-> 1, resp |-> <<ServerResponse(r)>>,
          readErr |-> fails = "read"]

----------------------------------------------------------------------------
(* Recorder *)

Modes == {ModeRecordOnly, ModeReplayOnly, ModeReplayWithNewEpisodes,
          ModeRecordOnce, ModePassthrough}

\* getCassette that loads an existing file in ModeRecordOnly too.
getCassetteRecordOnlyLoads(m, name, file) ==
    IF name = "" THEN [err |-> ErrNoCassetteName, c |-> NoCassette]
    ELSE IF m \in {ModeRecordOnly, ModeReplayWithNewEpisodes, ModeRecordOnce}
    THEN IF file.exists THEN Load(name, file)
         ELSE [err |-> NoErr, c |-> New(name)]
    ELSE IF m = ModeReplayOnly
    THEN IF file.exists THEN Load(name, file)
         ELSE [err |-> ErrCassetteNotFound, c |-> NoCassette]
    ELSE IF m = ModePassthrough THEN [err |-> NoErr, c |-> New(name)]
    ELSE [err |-> ErrInvalidMode, c |-> NoCassette]

\* Recorder.getCassette: [err, c].
getCassette(m, name, file) ==
    LET cassetteExists == file.exists
    IN  IF name = "" THEN [err |-> ErrNoCassetteName, c |-> NoCassette]
        ELSE CASE m = ModeRecordOnly -> [err |-> NoErr, c |-> New(name)]
               [] m = ModeReplayOnly /\ ~cassetteExists ->
                     [err |-> ErrCassetteNotFound, c |-> NoCassette]
               [] m = ModeReplayOnly /\ cassetteExists -> Load(name, file)
               [] m = ModeReplayWithNewEpisodes /\ ~cassetteExists ->
                     [err |-> NoErr, c |-> New(name)]
               [] m = ModeReplayWithNewEpisodes /\ cassetteExists ->
                     Load(name, file)
               [] m = ModeRecordOnce /\ ~cassetteExists ->
                     [err |-> NoErr, c |-> New(name)]
               [] m = ModeRecordOnce /\ cassetteExists -> Load(name, file)
               [] m = ModePassthrough -> [err |-> NoErr, c |-> New(name)]
               [] OTHER -> [err |-> ErrInvalidMode, c |-> NoCassette]

\* copiedReq.PostForm: the request is dumped, read back and its form parsed.
CopiedPostForm(r) ==
    ParseForm([r EXCEPT !.Body = BodyContent(r), !.Form = NilColl,
                        !.PostForm = NilColl]).PostForm

\* The cassette.Request built in requestHandler.
RecordedRequest(r) ==
    [Proto |-> r.Proto, ProtoMajor |-> r.ProtoMajor,
     ProtoMinor |-> r.ProtoMinor, ContentLength |-> r.ContentLength,
     TransferEncoding |-> r.TransferEncoding, Trailer |-> r.Trailer,
     Host |-> r.Host, RemoteAddr |-> r.RemoteAddr,
     RequestURI |-> r.RequestURI, Body |-> BodyContent(r),
     Form |-> CopiedPostForm(r), Headers |-> r.Header, URL |-> r.URL,
     Method |-> r.Method]

\* The cassette.Response built in requestHandler.
RecordedResponse(resp) ==
    [Status |-> resp.Status, Code |-> resp.StatusCode, Body |-> resp.Body,
     Headers |-> resp.Header, Duration |-> 1]

\* Interaction.GetHTTPResponse
GetHTTPResponse(i) ==
    [Status |-> i.Response.Status, StatusCode |-> i.Response.Code,
     Header |-> i.Response.Headers, Body |-> i.Response.Body]

\* The outcome of requestHandler: the error, the position in the cassette of
\* the interaction returned (0 when none), the cassette afterwards, and what
\* was done on the way.
Handled(err, idx, c, calls, lookups, ran, recorded) ==
    [err |-> err, idx |-> idx, c |-> c, calls |-> calls, lookups |-> lookups,
     ran |-> ran, recorded |-> recorded]

\* addCaptured that adds the interaction before it looks at the hooks' error.
addCapturedBeforeHooks(c, rt, lookups, a) ==
    Handled(a.err, IF a.err = NoErr THEN Len(c.Interactions) + 1 ELSE 0,
            AddInteraction(c, a.i), rt.calls, lookups,
            tagRan(AfterCaptureHook, a.ran, 0), a.err = NoErr)

\* requestHandler from rec.applyHooks(interaction, AfterCaptureHook) on: the
\* real round trip returned rt and the hooks a = [err, i, ran].
addCaptured(c, rt, lookups, a) ==
    IF a.err # NoErr
    THEN Handled(a.err, 0, c, rt.calls, lookups,
                 tagRan(AfterCaptureHook, a.ran, 0), FALSE)
    ELSE Handled(NoErr, Len(c.Interactions) + 1, AddInteraction(c, a.i),
                 rt.calls, lookups, tagRan(AfterCaptureHook, a.ran, 0), TRUE)

\* capture that adds the interaction as it was captured, without a call of
\* the AfterCapture hooks.
captureWithoutHooks(c, hs, r, rt, lookups) ==
    IF rt.err # NoErr \/ rt.readErr
    THEN Handled(IF rt.err # NoErr THEN rt.err ELSE ErrReadBody, 0, c,
                 rt.calls, lookups, <<>>, FALSE)
    ELSE addCaptured(c, rt, lookups,
                     [err |-> NoErr,
                      i |-> [ID |-> 0, Request |-> RecordedRequest(r),
                             Response |-> RecordedResponse(rt.resp[1]),
                             DiscardOnSave |-> FALSE, replayed |-> FALSE],
                      ran |-> <<>>])

\* requestHandler from the real round trip's return on.
capture(c, hs, r, rt, lookups) ==
    IF rt.err # NoErr
    THEN Handled(rt.err, 0, c, rt.calls, lookups, <<>>, FALSE)
    ELSE IF rt.readErr
    THEN Handled(ErrReadBody, 0, c, rt.calls, lookups, <<>>, FALSE)
    ELSE addCaptured(c, rt, lookups,
                     applyHooks(hs,
                                [ID |-> 0, Request |-> RecordedRequest(r),
                                 Response |-> RecordedResponse(rt.resp[1]),
                                 DiscardOnSave |-> FALSE, replayed |-> FALSE],
                                AfterCaptureHook))

\* requestHandler from "Copy the original request" on: perform the request and
\* record the interaction.  r is the live request as a lookup has left it;
\* httputil.DumpRequestOut fails on a body shorter than r.ContentLength.
performAndRecord(c, hs, block, r, fails, lookups) ==
    IF r.ContentLength # Len(BodyContent(r))
    THEN Handled(ErrDumpRequest, 0, c, 0, lookups, <<>>, FALSE)
    ELSE capture(c, hs, r, realRoundTrip(block, r, fails), lookups)

\* The return of a lookup's result g = [err, idx, r, c].
replay(g) == Handled(g.err, g.idx, g.c, 0, 1, <<>>, FALSE)

\* requestHandlerMode in which ModeRecordOnce with a loaded cassette records
\* what it does not find, as ModeReplayWithNewEpisodes does.
requestHandlerModeRecordsMissing(m, c, hs, block, r, fails, g) ==
    IF m = ModeReplayOnly THEN replay(g)
    ELSE IF m = ModePassthrough
    THEN performAndRecord(c, hs, block, r, fails, 0)
    ELSE IF m = ModeReplayWithNewEpisodes \/ (m = ModeRecordOnce /\ ~c.IsNew)
            \/ c.ReplayableInteractions
    THEN IF g.err = NoErr THEN replay(g)
         ELSE performAndRecord(g.c, hs, block, g.r, fails, 1)
    ELSE performAndRecord(c, hs, block, r, fails, 0)

\* The switch of requestHandler; g is what rec.cassette.GetInteraction(r)
\* returns in the cases that call it.
requestHandlerMode(m, c, hs, block, r, fails, g) ==
    IF m = ModeReplayOnly THEN replay(g)
    ELSE IF m = ModeReplayWithNewEpisodes
    THEN IF g.err = NoErr THEN replay(g)
         ELSE performAndRecord(g.c, hs, block, g.r, fails, 1)
    ELSE IF m = ModeRecordOnce /\ ~c.IsNew THEN replay(g)
    ELSE IF m = ModePassthrough
    THEN performAndRecord(c, hs, block, r, fails, 0)
    ELSE IF m \in {ModeRecordOnly, ModeRecordOnce} /\ c.ReplayableInteractions
    THEN IF g.err = NoErr THEN replay(g)
         ELSE performAndRecord(g.c, hs, block, g.r, fails, 1)
    ELSE performAndRecord(c, hs, block, r, fails, 0)

\* The moment the request's context is cancelled: never, before RoundTrip is
\* called, after requestHandler has returned, or after the select statement
\* of RoundTrip has found the context live (while the wait is in progress).
CancelMoments == {"never", "before", "handled", "waiting"}

\* Recorder.requestHandler
\* requestHandler that looks the request up before it tests the context.
requestHandlerLooksFirst(m, c, hs, block, r, cancelled, fails) ==
    IF cancelled = "before"
    THEN Handled(ErrContextCanceled, 0, getInteraction(c, r).c, 0, 1, <<>>,
                 FALSE)
    ELSE requestHandlerMode(m, c, hs, block, r, fails, getInteraction(c, r))

\* Recorder.requestHandler: the context's error first, then the switch on
\* the mode.
requestHandler(m, c, hs, block, r, cancelled, fails) ==
    IF cancelled = "before"
    THEN Handled(ErrContextCanceled, 0, c, 0, 0, <<>>, FALSE)
    ELSE requestHandlerMode(m, c, hs, block, r, fails, getInteraction(c, r))

\* What an operation did and returned.
Outcome(op, req, err, kind, idx, resp, calls, lookups, ran, evaluated, saved) ==
    [op |-> op, req |-> req, err |-> err, kind |-> kind, idx |-> idx,
     resp |-> resp, realCalls |-> calls, lookups |-> lookups,
     hookRuns |-> ran, passEvals |-> evaluated, saveCalled |-> saved,
     waited |-> FALSE, env |-> "ok", recording |-> FALSE, before |-> <<>>,
     matched |-> FALSE]

\* RoundTrip returning what the real round trip rt returned.
passedThrough(c, r, rt, evaluated) ==
    [c |-> c,
     out |-> Outcome("RoundTrip", <<r>>, rt.err, "passthrough", 0, rt.resp,
                     rt.calls, 0, <<>>, evaluated, FALSE)]

\* The select statement of RoundTrip: the context's error when the context is
\* done by then; otherwise the wait for the recorded duration, unless
\* skipRequestLatency, and the response of interaction i.  The wait is not
\* left before its end.
roundTripSelect(r, evaluated, h, i, ran, skip, cancelled) ==
    IF cancelled \in {"before", "handled"}
    THEN Outcome("RoundTrip", <<r>>, ErrContextCanceled, "none", 0, <<>>,
                 h.calls, h.lookups, ran, evaluated, FALSE)
    ELSE [Outcome("RoundTrip", <<r>>, NoErr,
                  IF h.recorded THEN "recorded" ELSE "replayed", h.idx,
                  <<GetHTTPResponse(i)>>, h.calls, h.lookups, ran, evaluated,
                  FALSE)
             EXCEPT !.waited = ~skip]

\* RoundTrip from the return of the BeforeResponseReplay hooks, b, on; h is
\* what requestHandler returned.
roundTripReplayed(r, evaluated, h, b, skip, cancelled) ==
    [c |-> [h.c EXCEPT !.Interactions[h.idx] = b.i],
     out |-> IF b.err # NoErr
             THEN Outcome("RoundTrip", <<r>>, b.err, "none", 0, <<>>, h.calls,
                          h.lookups,
                          h.ran \o tagRan(BeforeResponseReplayHook, b.ran, h.idx),
                          evaluated, FALSE)
             ELSE roundTripSelect(r, evaluated, h, b.i,
                          h.ran \o tagRan(BeforeResponseReplayHook, b.ran, h.idx),
                          skip, cancelled)]

\* RoundTrip from the return of requestHandler, h, on.
roundTripHandled(hs, r, evaluated, h, skip, cancelled) ==
    IF h.err # NoErr
    THEN [c |-> h.c,
          out |-> Outcome("RoundTrip", <<r>>, h.err, "none", 0, <<>>, h.calls,
                          h.lookups, h.ran, evaluated, FALSE)]
    ELSE roundTripReplayed(r, evaluated, h,
                           applyHooks(hs, h.c.Interactions[h.idx],
                                      BeforeResponseReplayHook),
                           skip, cancelled)

\* roundTripPassed that hands every request to requestHandler.
roundTripPassedIgnored(m, c, hs, block, skip, r, cancelled, fails, p) ==
    roundTripHandled(hs, r, p.evaluated,
                     requestHandler(m, c, hs, block, r, cancelled, fails),
                     skip, cancelled)

\* RoundTrip from the loop over rec.passthroughs, which returned p, on.
roundTripPassed(m, c, hs, block, skip, r, cancelled, fails, p) ==
    IF p.fired
    THEN passedThrough(c, r, realRoundTrip(block, r, fails), p.evaluated)
    ELSE roundTripHandled(hs, r, p.evaluated,
                          requestHandler(m, c, hs, block, r, cancelled, fails),
                          skip, cancelled)

\* roundTrip without the return for ModePassthrough.
roundTripNoPassthroughMode(m, c, ps, hs, block, skip, r, cancelled, fails) ==
    roundTripPassed(m, c, hs, block, skip, r, cancelled, fails,
                    passthroughFrom(ps, r, 1))

\* Recorder.RoundTrip: [c, out]; c is the cassette afterwards.
roundTrip(m, c, ps, hs, block, skip, r, cancelled, fails) ==
    IF m = ModePassthrough
    THEN passedThrough(c, r, realRoundTrip(block, r, fails), <<>>)
    ELSE roundTripPassed(m, c, hs, block, skip, r, cancelled, fails,
                         passthroughFrom(ps, r, 1))

\* persistCassette from the return of the BeforeSave hooks, b, on.
persistSaved(b, sv) ==
    [err |-> sv.err, c |-> sv.c, file |-> sv.file, ran |-> b.ran,
     saved |-> TRUE]

\* persistHooked that calls Save whatever the hooks returned.
persistAlways(c, file, fault, b) ==
    persistSaved(b, Save([c EXCEPT !.Interactions = b.is], file, fault))

\* persistCassette from the return of the BeforeSave hooks, b, on.
persistHooked(c, file, fault, b) ==
    IF b.err # NoErr
    THEN [err |-> b.err, c |-> [c EXCEPT !.Interactions = b.is],
          file |-> file, ran |-> b.ran, saved |-> FALSE]
    ELSE persistSaved(b, Save([c EXCEPT !.Interactions = b.is], file, fault))

\* Recorder.persistCassette: [err, c, file, ran, saved].
persistCassette(c, hs, file, fault) ==
    persistHooked(c, file, fault,
                  applyHooksAll(hs, c.Interactions, BeforeSaveHook, 1))

\* Stop from the return of the OnRecorderStop hooks, o, on; p is what the
\* switch on the mode did.
stopHooked(p, o) ==
    [c |-> [p.c EXCEPT !.Interactions = o.is], file |-> p.file,
     out |-> Outcome("Stop", <<>>, o.err, "none", 0, <<>>, 0, 0,
                     p.ran \o o.ran, <<>>, p.saved)]

\* stopPersisted that returns without a call of the OnRecorderStop hooks.
stopPersistedWithoutHooks(hs, p) ==
    [c |-> p.c, file |-> p.file,
     out |-> Outcome("Stop", <<>>, p.err, "none", 0, <<>>, 0, 0, p.ran, <<>>,
                     p.saved)]

\* Stop from the switch on the mode, which did p, on.
stopPersisted(hs, p) ==
    IF p.err # NoErr
    THEN [c |-> p.c, file |-> p.file,
          out |-> Outcome("Stop", <<>>, p.err, "none", 0, <<>>, 0, 0, p.ran,
                          <<>>, p.saved)]
    ELSE stopHooked(p, applyHooksAll(hs, p.c.Interactions,
                                     OnRecorderStopHook, 1))

\* Recorder.Stop: [c, file, out]; the cassette file exists or not at the time
\* of the call.
stop(m, c, hs, file, fault) ==
    stopPersisted(hs,
        IF \/ m = ModeRecordOnly \/ m = ModeReplayWithNewEpisodes
           \/ (m = ModeRecordOnce /\ ~file.exists)
        THEN persistCassette(c, hs, file, fault)
        ELSE [err |-> NoErr, c |-> c, file |-> file, ran |-> <<>>,
              saved |-> FALSE])

\* Recorder.IsNewCassette
IsNewCassette(c) == c.IsNew

\* IsRecording that takes every ModeRecordOnce recorder to be recording.
IsRecordingInRecordOnce(m, c) ==
    m \in {ModeRecordOnly, ModeReplayWithNewEpisodes, ModeRecordOnce}

\* Recorder.IsRecording
IsRecording(m, c) ==
    IF m = ModeRecordOnly \/ m = ModeReplayWithNewEpisodes THEN TRUE
    ELSE IF m = ModeReplayOnly \/ m = ModePassthrough THEN FALSE
    ELSE IF m = ModeRecordOnce /\ IsNewCassette(c) THEN TRUE
    ELSE FALSE

----------------------------------------------------------------------------
(* The recorder and its environment as a state machine *)

CassetteName == "fixtures/cassette"

Hook(handler, kind) == [Handler |-> handler, Kind |-> kind]

\* The option sets given to recorder.New in the runs on modes: every mode
\* (5 is not a mode), and one without a cassette name.
ModeOptions ==
    [mode : Modes \cup {5}, name : {CassetteName}, block : {FALSE},
     skipLatency : {FALSE}, passthroughs : {<<>>}, hooks : {<<>>}]
    \cup [mode : {ModeRecordOnce}, name : {""}, block : {FALSE},
          skipLatency : {FALSE}, passthroughs : {<<>>}, hooks : {<<>>}]

\* The requests a client sends in the runs on modes.
ModeRequests == {GetFoo, PostFooQuery}

\* A cassette file written by a release with another format version.
OldFile == [exists |-> TRUE, truncated |-> FALSE, Version |-> 1,
            Interactions |-> <<>>]

\* What happens around one RoundTrip call: nothing; the request's context is
\* cancelled before the call, after requestHandler has returned, or while
\* RoundTrip waits; the real transport fails; the response body cannot be
\* read.
Environments == {"ok", "cancelled", "cancelledHandled", "cancelledWaiting",
                 "transportFails", "readFails"}

CancelMoment(env) ==
    CASE env = "cancelled" -> "before"
      [] env = "cancelledHandled" -> "handled"
      [] env = "cancelledWaiting" -> "waiting"
      [] OTHER -> "never"

TransportFault(env) ==
    CASE env = "transportFails" -> "transport"
      [] env = "readFails" -> "read"
      [] OTHER -> "none"

NoOutcome == Outcome("none", <<>>, NoErr, "none", 0, <<>>, 0, 0, <<>>, <<>>, FALSE)

Init ==
    /\ disk \in {NoFile, OldFile}
    /\ recState = "none"
    /\ mode = ModeRecordOnce
    /\ blockUnsafeMethods = FALSE
    /\ skipRequestLatency = FALSE
    /\ passthroughs = <<>>
    /\ hooks = <<>>
    /\ cassette = New("")
    /\ last = NoOutcome
    /\ runLog = <<>>
    /\ clean = TRUE
    /\ stopped = FALSE
    /\ runs = 0
    /\ NoCalls

\* recorder.New(opts...)
NewRecorder(o) ==
    /\ runs < MaxRuns
    /\ LET g == getCassette(o.mode, o.name, disk)
       IN  /\ recState' = IF g.err = NoErr THEN "ready" ELSE "failed"
           /\ cassette' = IF g.err = NoErr THEN g.c ELSE New(o.name)
           /\ last' = [NoOutcome EXCEPT !.op = "New", !.err = g.err]
    /\ mode' = o.mode
    /\ blockUnsafeMethods' = o.block
    /\ skipRequestLatency' = o.skipLatency
    /\ passthroughs' = o.passthroughs
    /\ hooks' = o.hooks
    /\ runLog' = <<>>
    /\ clean' = TRUE
    /\ stopped' = FALSE
    /\ runs' = runs + 1
    /\ UNCHANGED disk
    /\ Sequential

\* Recorder.SetMatcher, called before the first request.
SetMatcher(mt) ==
    /\ recState = "ready" /\ runLog = <<>> /\ ~stopped
    /\ cassette.Matcher # mt
    /\ cassette' = [cassette EXCEPT !.Matcher = mt]
    /\ last' = [NoOutcome EXCEPT !.op = "SetMatcher"]
    /\ UNCHANGED <<disk, recState, mode, blockUnsafeMethods,
                   skipRequestLatency, passthroughs, hooks, runLog, clean,
                   stopped, runs>>
    /\ Sequential

\* Recorder.SetReplayableInteractions, called before the first request.
SetReplayableInteractions(b) ==
    /\ recState = "ready" /\ runLog = <<>> /\ ~stopped
    /\ cassette.ReplayableInteractions # b
    /\ cassette' = [cassette EXCEPT !.ReplayableInteractions = b]
    /\ last' = [NoOutcome EXCEPT !.op = "SetReplayableInteractions"]
    /\ UNCHANGED <<disk, recState, mode, blockUnsafeMethods,
                   skipRequestLatency, passthroughs, hooks, runLog, clean,
                   stopped, runs>>
    /\ Sequential

\* Recorder.RoundTrip(req)
RoundTrip(r, env) ==
    /\ recState = "ready"
    /\ Len(runLog) < MaxRequests
    /\ env = "cancelledWaiting" => ~skipRequestLatency
    /\ LET t == roundTrip(mode, cassette, passthroughs, hooks,
                          blockUnsafeMethods, skipRequestLatency, r,
                          CancelMoment(env), TransportFault(env))
       IN  /\ Len(t.c.Interactions) <= MaxInteractions
           /\ cassette' = t.c
           /\ last' = [t.out EXCEPT !.env = env]
    /\ runLog' = Append(runLog, r)
    /\ clean' = (clean /\ env = "ok")
    /\ UNCHANGED <<disk, recState, mode, blockUnsafeMethods,
                   skipRequestLatency, passthroughs, hooks, stopped, runs>>
    /\ Sequential

\* Recorder.Stop()
Stop(fault) ==
    /\ recState = "ready"
    /\ LET t == stop(mode, cassette, hooks, disk, fault)
       IN  /\ cassette' = t.c
           /\ disk' = t.file
           /\ last' = [t.out EXCEPT !.env = fault,
                                    !.before = disk.Interactions]
    /\ stopped' = TRUE
    /\ UNCHANGED <<recState, mode, blockUnsafeMethods, skipRequestLatency,
                   passthroughs, hooks, runLog, clean, runs>>
    /\ Sequential

\* Recorder.IsRecording(), asked of the current recorder.
AskIsRecording ==
    /\ recState = "ready"
    /\ last' = [NoOutcome EXCEPT !.op = "IsRecording",
                                 !.recording = IsRecording(mode, cassette)]
    /\ UNCHANGED <<disk, recState, mode, blockUnsafeMethods,
                   skipRequestLatency, passthroughs, hooks, cassette, runLog,
                   clean, stopped, runs>>
    /\ Sequential

\* The steps of recorders constructed with options of O, for requests of R
\* in environments of E, with save faults of F.
NextOver(O, R, E, F) ==
    \/ \E o \in O : NewRecorder(o)
    \/ \E mt \in Matchers : SetMatcher(mt)
    \/ \E b \in BOOLEAN : SetReplayableInteractions(b)
    \/ \E r \in R, env \in E : RoundTrip(r, env)
    \/ \E fault \in F : Stop(fault)

Next == NextOver(ModeOptions, ModeRequests, {"ok"}, {"none"})

Spec == Init /\ [][Next]_vars

\* The hooks of a test that keeps POST requests out of the cassette file.
DiscardHooks ==
    <<Hook("discardPost", AfterCaptureHook), Hook("setBodySaved", BeforeSaveHook)>>

\* One hook of every kind, each leaving its mark on the response body.
MarkHooks ==
    <<Hook("setBodyCaptured", AfterCaptureHook),
      Hook("setBodySaved", BeforeSaveHook),
      Hook("setBodyReplayed", BeforeResponseReplayHook),
      Hook("noop", OnRecorderStopHook)>>

\* The passthrough predicates of these runs, in registration order.
PassthroughConfig == <<"isBar", "isPost">>

HookOption(m, ps, hs) ==
    [mode |-> m, name |-> CassetteName, block |-> FALSE,
     skipLatency |-> FALSE, passthroughs |-> ps, hooks |-> hs]

\* The option sets given to recorder.New in the runs on hooks.
HookOptions ==
    {HookOption(ModeRecordOnly, <<>>, DiscardHooks)}
    \cup {HookOption(m, PassthroughConfig, MarkHooks) :
             m \in {ModeReplayOnly, ModeReplayWithNewEpisodes, ModeRecordOnce,
                    ModePassthrough}}

HookRequests == {GetFoo, GetBar, PostFoo}

\* The steps of recorders with hooks and passthrough predicates; they keep
\* the default matcher and do not replay an interaction twice.
NextHooks ==
    \/ \E o \in HookOptions : NewRecorder(o)
    \/ \E r \in HookRequests : RoundTrip(r, "ok")
    \/ Stop("none")

InitHooks == Init /\ disk = NoFile

SpecHooks == InitHooks /\ [][NextHooks]_vars

\* Hooks of which one fails during capture, after one hook of its kind and
\* before another.
CaptureFaultHooks ==
    <<Hook("markCaptured", AfterCaptureHook),
      Hook("noop", BeforeSaveHook),
      Hook("failGet", AfterCaptureHook),
      Hook("noop", AfterCaptureHook)>>

\* Hooks of which one fails before a response is returned, one before the
\* save and one when the recorder stops.
StopFaultHooks ==
    <<Hook("markCaptured", AfterCaptureHook),
      Hook("markSaved", BeforeSaveHook),
      Hook("markReplayed", BeforeResponseReplayHook),
      Hook("failGet", OnRecorderStopHook),
      Hook("failPost", BeforeSaveHook),
      Hook("failPost", BeforeResponseReplayHook),
      Hook("noop", AfterCaptureHook),
      Hook("noop", BeforeSaveHook),
      Hook("noop", BeforeResponseReplayHook),
      Hook("noop", OnRecorderStopHook)>>

FaultOption(m, block, skip, hs) ==
    [mode |-> m, name |-> CassetteName, block |-> block, skipLatency |-> skip,
     passthroughs |-> <<>>, hooks |-> hs]

\* The option sets given to recorder.New in the runs on failures.
FaultOptions ==
    {FaultOption(ModeReplayWithNewEpisodes, TRUE, FALSE, CaptureFaultHooks),
     FaultOption(ModeReplayWithNewEpisodes, FALSE, FALSE, StopFaultHooks)}

FaultRequests == {GetFoo, PostFoo}

\* The environments in which the real round trip fails or not.
FaultEnvironments == {"ok", "transportFails", "readFails"}

\* The steps of recorders whose hooks, transport and file system fail; they
\* keep the default matcher.
NextFaults ==
    \/ \E o \in FaultOptions : NewRecorder(o)
    \/ \E r \in FaultRequests, env \in FaultEnvironments : RoundTrip(r, env)
    \/ \E fault \in SaveFaults : Stop(fault)

SpecFaults == InitHooks /\ [][NextFaults]_vars

\* The option sets given to recorder.New in the runs on cancellation: with
\* and without the simulated latency.
CancelOptions ==
    {FaultOption(ModeReplayWithNewEpisodes, FALSE, FALSE, <<>>),
     FaultOption(ModeRecordOnce, FALSE, TRUE, <<>>)}

\* The environments in which the request's context is cancelled or not.
CancelEnvironments == {"ok", "cancelled", "cancelledHandled", "cancelledWaiting"}

\* The steps of recorders whose requests are cancelled.
NextCancel ==
    \/ \E o \in CancelOptions : NewRecorder(o)
    \/ \E env \in CancelEnvironments : RoundTrip(GetFoo, env)
    \/ Stop("none")

SpecCancel == InitHooks /\ [][NextCancel]_vars

\* One hook of every kind, each adding its mark to the response headers.
TagHooks ==
    <<Hook("markCaptured", AfterCaptureHook),
      Hook("markSaved", BeforeSaveHook),
      Hook("markReplayed", BeforeResponseReplayHook),
      Hook("markStopped", OnRecorderStopHook)>>

\* The hooks of a recording run that does not replay.
RecordingHooks ==
    <<Hook("markCaptured", AfterCaptureHook), Hook("markSaved", BeforeSaveHook)>>

\* The option sets given to recorder.New in the runs on marks.
MarkOptions ==
    {FaultOption(ModeReplayWithNewEpisodes, FALSE, TRUE, TagHooks),
     FaultOption(ModeRecordOnly, FALSE, TRUE, RecordingHooks)}

MarkRequests == {GetFoo, GetBar}

\* The steps of recorders whose hooks mark what they are given.
NextMarks ==
    \/ \E o \in MarkOptions : NewRecorder(o)
    \/ \E r \in MarkRequests : RoundTrip(r, "ok")
    \/ Stop("none")

SpecMarks == InitHooks /\ [][NextMarks]_vars

\* The option sets given to recorder.New in the runs whose requests come
\* with a cancelled context: every mode but ModePassthrough, a hook of every
\* kind, and a passthrough predicate for GET /bar.
AbortOptions ==
    {HookOption(m, <<"isBar">>, TagHooks) : m \in Modes \ {ModePassthrough}}

AbortRequests == {GetFoo, GetBar}

\* The steps of these recorders.
NextAborted ==
    \/ \E o \in AbortOptions : NewRecorder(o)
    \/ \E r \in AbortRequests, env \in {"ok", "cancelled"} : RoundTrip(r, env)
    \/ Stop("none")

SpecAborted == InitHooks /\ [][NextAborted]_vars

\* Hooks that flag the POST interactions as not to be saved and mark what
\* the BeforeSave and OnRecorderStop hooks are given.
DiscardStopHooks ==
    <<Hook("discardPost", AfterCaptureHook),
      Hook("markSaved", BeforeSaveHook),
      Hook("markStopped", OnRecorderStopHook)>>

DiscardOptions ==
    {HookOption(m, <<>>, DiscardStopHooks) :
        m \in {ModeReplayWithNewEpisodes, ModeRecordOnly}}

DiscardRequests == {GetFoo, PostFoo}

\* The steps of recorders that flag interactions as not to be saved.
NextDiscard ==
    \/ \E o \in DiscardOptions : NewRecorder(o)
    \/ \E r \in DiscardRequests : RoundTrip(r, "ok")
    \/ Stop("none")

SpecDiscard == InitHooks /\ [][NextDiscard]_vars

\* The option sets given to recorder.New in the runs that ask IsRecording:
\* every mode.
RecordingOptions == {HookOption(m, <<>>, <<>>) : m \in Modes}

RecordingRequests == {GetFoo, GetBar}

\* The steps of recorders that are asked whether they record.
NextRecording ==
    \/ \E o \in RecordingOptions : NewRecorder(o)
    \/ \E b \in BOOLEAN : SetReplayableInteractions(b)
    \/ \E r \in RecordingRequests : RoundTrip(r, "ok")
    \/ Stop("none")
    \/ AskIsRecording

SpecRecording == InitHooks /\ [][NextRecording]_vars

\* The option sets given to recorder.New in the runs on the guard of unsafe
\* methods: a recording run without the guard, and runs with it that record
\* new episodes, with a passthrough predicate, or pass everything through.
BlockOptions ==
    {FaultOption(ModeRecordOnly, FALSE, TRUE, <<>>),
     [FaultOption(ModeReplayWithNewEpisodes, TRUE, TRUE, <<>>)
         EXCEPT !.passthroughs = <<"isBar">>],
     FaultOption(ModePassthrough, TRUE, TRUE, <<>>)}

BlockRequests == {GetFoo, PostFooQuery, PostBar}

\* The steps of recorders with and without the guard of unsafe methods.
NextBlock ==
    \/ \E o \in BlockOptions : NewRecorder(o)
    \/ \E r \in BlockRequests : RoundTrip(r, "ok")
    \/ Stop("none")

SpecBlock == InitHooks /\ [][NextBlock]_vars

\* The live request of the matcher's tests: every field set, the form parsed
\* already, a body that is no form.
TestRequest ==
    [Method |-> "POST", URL |-> <<"/", <<>>>>,
     Proto |-> "HTTP/1.0", ProtoMajor |-> 1, ProtoMinor |-> 0,
     Header |-> {<<"foo", "1">>, <<"bar", "3">>},
     Body |-> <<<<"foo", "bar">>>>, ContentLength |-> 1,
     TransferEncoding |-> {<<"bar", "baz">>}, Host |-> "example.com",
     Form |-> {<<"name", "Ava">>, <<"friend", "Jess">>}, PostForm |-> NilColl,
     Trailer |-> {<<"baz", "5">>, <<"meh", "7">>},
     RemoteAddr |-> "1.2.3.4", RequestURI |-> "POST / HTTP/1.0"]

\* The stored request of the matcher's tests, which matches TestRequest.
TestStored ==
    [RecordedRequest(TestRequest) EXCEPT !.Form = TestRequest.Form]

\* Pairs of a live request and a stored request that match: the pair of the
\* tests, and requests with what a recorder stored for them and loaded again.
MatchingPairs ==
    {<<TestRequest, TestStored>>,
     <<GetFoo, MarshalRequest(RecordedRequest(GetFoo))>>,
     <<PostFoo, MarshalRequest(RecordedRequest(PostFoo))>>}

\* Other values for each field the matcher looks at: some value that is not
\* in use, and for a collection the nil and the empty collection.
OtherCollections == {{<<"not", "match">>}, NilColl, {}}

OtherHeaders ==
    {{<<"not", "match">>}, NilColl, {}, {<<"User-Agent", "a">>},
     {<<"User-Agent", "b">>}, {<<"Authorization", "x">>},
     {<<"User-Agent", "a">>, <<"not", "match">>}}

OtherValues(f) ==
    CASE f = "Method" -> {"DELETE"}
      [] f = "URL" -> {<<"/not/match", <<>>>>}
      [] f = "Proto" -> {"foo"}
      [] f = "ProtoMajor" -> {3}
      [] f = "ProtoMinor" -> {2}
      [] f \in {"Header", "Headers"} -> OtherHeaders
      [] f = "ContentLength" -> {7}
      [] f \in {"TransferEncoding", "Form", "Trailer"} -> OtherCollections
      [] f = "Host" -> {"not.match"}
      [] f = "RemoteAddr" -> {"4.3.2.1"}
      [] f = "RequestURI" -> {"not a match"}

\* Headers whose names are all in the ignore list, and header set h with
\* such headers added.
IgnoredExtras ==
    {{<<"User-Agent", "a">>}, {<<"User-Agent", "b">>},
     {<<"Authorization", "x">>},
     {<<"User-Agent", "a">>, <<"Header-One", "z">>}}

AddHeaders(h, extra) == IF h = NilColl THEN extra ELSE h \cup extra

HeaderVariants(h) == {h} \cup {AddHeaders(h, x) : x \in IgnoredExtras}

MatchedFields ==
    {"Method", "URL", "Proto", "ProtoMajor", "ProtoMinor", "ContentLength",
     "TransferEncoding", "Host", "Form", "Trailer", "RemoteAddr", "RequestURI"}

\* Request q with field f changed to another value.
Changed(q, f) == {[q EXCEPT ![f] = v] : v \in OtherValues(f)}

\* The live requests given to the matcher: those of the matching pairs, as
\* they are and with one field changed.
LiveRequests ==
    {p[1] : p \in MatchingPairs}
    \cup UNION {Changed(p[1], f) :
                   p \in MatchingPairs, f \in MatchedFields \cup {"Header"}}
    \cup {[p[1] EXCEPT !.Body = b] :
             p \in MatchingPairs, b \in {<<<<"not", "match">>>>, NilBody, NoBody}}
    \cup {[p[1] EXCEPT !.Header = AddHeaders(p[1].Header, x)] :
             p \in MatchingPairs, x \in IgnoredExtras}

\* The stored requests: those of the matching pairs, as they are and with
\* one field changed.
StoredRequests ==
    {p[2] : p \in MatchingPairs}
    \cup UNION {Changed(p[2], f) :
                   p \in MatchingPairs, f \in MatchedFields \cup {"Headers"}}
    \cup {[p[2] EXCEPT !.Body = b] :
             p \in MatchingPairs, b \in {<<<<"not", "match">>>>, <<>>}}
    \cup {[p[2] EXCEPT !.Headers = AddHeaders(p[2].Headers, x)] :
             p \in MatchingPairs, x \in IgnoredExtras}

\* A cassette holding one interaction with a stored request of
\* StoredRequests, and the default matcher with or without ignored headers.
InitMatcher ==
    /\ disk = NoFile
    /\ recState = "none"
    /\ mode = ModeRecordOnce
    /\ blockUnsafeMethods = FALSE
    /\ skipRequestLatency = FALSE
    /\ passthroughs = <<>>
    /\ hooks = <<>>
    /\ \E q \in StoredRequests, m \in {"DefaultMatcher", "IgnoringMatcher"} :
          cassette =
             [AddInteraction(New(CassetteName),
                             [ID |-> 0, Request |-> q,
                              Response |-> RecordedResponse(ServerResponse(GetFoo)),
                              DiscardOnSave |-> FALSE, replayed |-> FALSE])
                 EXCEPT !.Matcher = m]
    /\ last = [NoOutcome EXCEPT !.op = "New"]
    /\ runLog = <<>>
    /\ clean = TRUE
    /\ stopped = FALSE
    /\ runs = 0
    /\ NoCalls

\* c.Matcher(r, i.Request) for the interaction the cassette holds; last.req
\* is the live request before the call and last.resp what the call has made
\* of it.
Match(r) ==
    /\ last' = [NoOutcome EXCEPT
                   !.op = "Matcher", !.req = <<r>>,
                   !.resp = <<ApplyMatcher(cassette.Matcher, r,
                                           cassette.Interactions[1].Request).r>>,
                   !.matched = ApplyMatcher(cassette.Matcher, r,
                                            cassette.Interactions[1].Request).ok]
    /\ UNCHANGED <<disk, recState, mode, blockUnsafeMethods,
                   skipRequestLatency, passthroughs, hooks, cassette, runLog,
                   clean, stopped, runs>>
    /\ Sequential

NextMatcher == \E r \in LiveRequests : Match(r)

SpecMatcher == InitMatcher /\ [][NextMatcher]_vars

\* The cassette package used without a recorder.
\* cassette.Load(name); the cassette in use is replaced when it succeeds.
CassetteLoad ==
    /\ runs < MaxRuns
    /\ LET l == Load(CassetteName, disk)
       IN  /\ cassette' = IF l.err = NoErr THEN l.c ELSE cassette
           /\ last' = [NoOutcome EXCEPT
                          !.op = "Load", !.err = l.err,
                          !.resp = IF IsNilCassette(l.c) THEN <<>> ELSE <<l.c>>,
                          !.before = IF last.op = "Save" /\ last.err = NoErr
                                     THEN cassette.Interactions ELSE <<>>]
    /\ runs' = runs + 1
    /\ UNCHANGED <<disk, recState, mode, blockUnsafeMethods,
                   skipRequestLatency, passthroughs, hooks, runLog, clean,
                   stopped>>
    /\ Sequential

\* c.AddInteraction(i) for the interaction captured from request r; no more
\* than MaxInteractions ids are assigned between two loads.
CassetteAdd(r) ==
    /\ cassette.Name # ""
    /\ cassette.nextInteractionId < MaxInteractions
    /\ cassette' = AddInteraction(cassette,
                                  [ID |-> 0, Request |-> RecordedRequest(r),
                                   Response |-> RecordedResponse(ServerResponse(r)),
                                   DiscardOnSave |-> FALSE, replayed |-> FALSE])
    /\ last' = [NoOutcome EXCEPT !.op = "AddInteraction",
                                 !.idx = Len(cassette.Interactions) + 1]
    /\ UNCHANGED <<disk, recState, mode, blockUnsafeMethods,
                   skipRequestLatency, passthroughs, hooks, runLog, clean,
                   stopped, runs>>
    /\ Sequential

\* c.GetInteraction(r)
CassetteGet(r) ==
    /\ cassette.Name # ""
    /\ LET g == getInteraction(cassette, r)
       IN  /\ cassette' = g.c
           /\ last' = [NoOutcome EXCEPT !.op = "GetInteraction",
                                        !.err = g.err, !.idx = g.idx,
                                        !.lookups = 1]
    /\ UNCHANGED <<disk, recState, mode, blockUnsafeMethods,
                   skipRequestLatency, passthroughs, hooks, runLog, clean,
                   stopped, runs>>
    /\ Sequential

\* i.DiscardOnSave = true for the interaction at position k, a POST, as a
\* hook or the cassette's user sets it.
CassetteDiscard(k) ==
    /\ cassette.Name # ""
    /\ k \in 1..Len(cassette.Interactions)
    /\ cassette.Interactions[k].Request.Method = "POST"
    /\ ~cassette.Interactions[k].DiscardOnSave
    /\ cassette' = [cassette EXCEPT !.Interactions[k].DiscardOnSave = TRUE]
    /\ last' = [NoOutcome EXCEPT !.op = "Discard", !.idx = k]
    /\ UNCHANGED <<disk, recState, mode, blockUnsafeMethods,
                   skipRequestLatency, passthroughs, hooks, runLog, clean,
                   stopped, runs>>
    /\ Sequential

\* c.Save()
CassetteSave(fault) ==
    /\ cassette.Name # ""
    /\ LET sv == Save(cassette, disk, fault)
       IN  /\ cassette' = sv.c
           /\ disk' = sv.file
           /\ last' = [NoOutcome EXCEPT !.op = "Save", !.err = sv.err,
                                        !.saveCalled = TRUE, !.env = fault,
                                        !.before = cassette.Interactions]
    /\ UNCHANGED <<recState, mode, blockUnsafeMethods, skipRequestLatency,
                   passthroughs, hooks, runLog, clean, stopped, runs>>
    /\ Sequential

CassetteRequests == {GetFoo, PostFoo}

\* The steps of a program that uses one cassette file through the cassette
\* package.
NextCassette ==
    \/ CassetteLoad
    \/ \E r \in CassetteRequests : CassetteAdd(r)
    \/ \E r \in CassetteRequests : CassetteGet(r)
    \/ \E k \in 1..MaxInteractions : CassetteDiscard(k)
    \/ CassetteSave("none")

\* cassette.New(name), with no cassette file or one of another format version.
InitCassette ==
    /\ disk \in {NoFile, OldFile}
    /\ recState = "none"
    /\ mode = ModeRecordOnce
    /\ blockUnsafeMethods = FALSE
    /\ skipRequestLatency = FALSE
    /\ passthroughs = <<>>
    /\ hooks = <<>>
    /\ cassette = New(CassetteName)
    /\ last = [NoOutcome EXCEPT !.op = "New"]
    /\ runLog = <<>>
    /\ clean = TRUE
    /\ stopped = FALSE
    /\ runs = 0
    /\ NoCalls

SpecCassette == InitCassette /\ [][NextCassette]_vars

----------------------------------------------------------------------------
(* Goroutines calling into one cassette and one recorder at the same time *)

\* c.Lock() that returns although another goroutine holds the mutex.
CanLockHeld(m) == TRUE

\* c.Lock() returns when no goroutine holds the mutex m.
CanLock(m) == m = 0

\* c.Unlock() that leaves the mutex held.
KeepLocked(m) == m

\* The mutex after c.Unlock().
Unlock(m) == 0

\* An Unlock written before the successful return only, in place of the
\* deferred one.
UnlockOnSuccess(m, err) == IF err = NoErr THEN Unlock(m) ELSE m

\* The mutex after the deferred c.Unlock() of a call that returns err.
Deferred(m, err) == Unlock(m)

\* appendAssigned that leaves the id counter as it is.
appendKeepsCounter(c, i) ==
    [c EXCEPT !.Interactions = Append(c.Interactions, i)]

\* AddInteraction after i.ID = c.nextInteractionId: the counter goes up by
\* one and i is appended.
appendAssigned(c, i) ==
    [c EXCEPT !.nextInteractionId = c.nextInteractionId + 1,
              !.Interactions = Append(c.Interactions, i)]

\* getInteraction's i.replayed = true, on the interaction the pointer ptr
\* refers to.
markReplayed(c, ptr) ==
    [c EXCEPT !.Interactions =
        [k \in 1..Len(c.Interactions) |->
            IF c.Interactions[k].ptr = ptr
            THEN [c.Interactions[k] EXCEPT !.replayed = TRUE]
            ELSE c.Interactions[k]]]

\* requestHandler's switch: the mode looks for the request in the cassette,
\* and goes on to the real transport when it is not found.
looksUp(m, c) ==
    \/ m \in {ModeReplayOnly, ModeReplayWithNewEpisodes}
    \/ (m = ModeRecordOnce /\ ~c.IsNew)
    \/ (m \in {ModeRecordOnly, ModeRecordOnce} /\ c.ReplayableInteractions)

recordsMiss(m, c) ==
    /\ m # ModeReplayOnly
    /\ ~(m = ModeRecordOnce /\ ~c.IsNew)

\* The interaction requestHandler makes of request r and its response; ptr
\* is the pointer that identifies it, d its DiscardOnSave flag.
NewInteraction(r, ptr, d) ==
    [ID |-> 0, Request |-> RecordedRequest(r),
     Response |-> RecordedResponse(ServerResponse(r)),
     DiscardOnSave |-> d, replayed |-> FALSE, ptr |-> ptr]

\* The record of a completed call in hist.
Done(kind, ptr, d) == [kind |-> kind, ptr |-> ptr, discard |-> d]

Adds(h) == {k \in 1..Len(h) : h[k].kind = "add"}

Busy == {p \in Goroutines : procs[p].pc # "idle"}

\* Calls made so far, completed or not.
Started == Len(hist) + Cardinality(Busy)

\* Goroutine p may make the next call: it is idle, and so that runs which
\* differ only in the numbering of the goroutines are not told apart, no
\* goroutine with a lower number is.
MayCall(p) ==
    /\ procs[p].pc = "idle"
    /\ \A q \in Goroutines : q < p => procs[q].pc # "idle"
    /\ Started < MaxRequests

\* A pointer no interaction has yet.
NextPtr ==
    1 + Cardinality(Adds(hist))
      + Cardinality({p \in Goroutines : procs[p].ia # <<>>})

recorderVars == <<recState, mode, blockUnsafeMethods, skipRequestLatency,
                  passthroughs, hooks, last, runLog, clean, stopped, runs>>

\* Goroutine p calls c.GetInteraction(r).
CallGet(p, r) ==
    /\ MayCall(p)
    /\ procs' = [procs EXCEPT ![p] = [Idle EXCEPT !.pc = "get.lock",
                                                  !.op = "GetInteraction",
                                                  !.req = <<r>>]]
    /\ UNCHANGED <<disk, cassette, mu, hist, recorderVars>>

\* Goroutine p calls c.AddInteraction(i), i made of request r.
CallAdd(p, r, d) ==
    /\ MayCall(p)
    /\ procs' = [procs EXCEPT ![p] =
                    [Idle EXCEPT !.pc = "add.lock", !.op = "AddInteraction",
                                 !.req = <<r>>,
                                 !.ia = <<NewInteraction(r, NextPtr, d)>>]]
    /\ UNCHANGED <<disk, cassette, mu, hist, recorderVars>>

\* Goroutine p calls c.Save().
CallSave(p) ==
    /\ MayCall(p)
    /\ procs' = [procs EXCEPT ![p] = [Idle EXCEPT !.pc = "save.lock",
                                                  !.op = "Save"]]
    /\ UNCHANGED <<disk, cassette, mu, hist, recorderVars>>

\* Goroutine p calls rec.RoundTrip(r), which calls requestHandler: up to the
\* call of GetInteraction or, in a mode that does not look up, of the real
\* transport.
CallRoundTrip(p, r) ==
    /\ MayCall(p)
    /\ procs' = [procs EXCEPT ![p] =
                    [Idle EXCEPT !.pc = IF looksUp(mode, cassette)
                                        THEN "get.lock" ELSE "transport",
                                 !.op = "RoundTrip", !.req = <<r>>]]
    /\ UNCHANGED <<disk, cassette, mu, hist, recorderVars>>

\* c.Lock() at the start of GetInteraction, AddInteraction and Save.
Acquire(p) ==
    /\ procs[p].pc \in {"get.lock", "add.lock", "save.lock"}
    /\ CanLock(mu)
    /\ mu' = p
    /\ procs' = [procs EXCEPT ![p].pc =
                    CASE procs[p].pc = "get.lock" -> "get.scan"
                      [] procs[p].pc = "add.lock" -> "add.id"
                      [] procs[p].pc = "save.lock" -> "save.filter"]
    /\ UNCHANGED <<disk, cassette, hist, recorderVars>>

\* getInteraction's loop up to the interaction that matches.
GetScan(p) ==
    /\ procs[p].pc = "get.scan"
    /\ LET s == scan(cassette, withNoBody(procs[p].req[1]), 1)
       IN  procs' = [procs EXCEPT
                        ![p].pc = IF s.idx = 0 THEN "get.unlock" ELSE "get.mark",
                        ![p].idx = s.idx,
                        ![p].ptr = IF s.idx = 0 THEN 0
                                   ELSE cassette.Interactions[s.idx].ptr]
    /\ UNCHANGED <<disk, cassette, mu, hist, recorderVars>>

\* getInteraction's i.replayed = true.
GetMark(p) ==
    /\ procs[p].pc = "get.mark"
    /\ cassette' = markReplayed(cassette, procs[p].ptr)
    /\ procs' = [procs EXCEPT ![p].pc = "get.unlock"]
    /\ UNCHANGED <<disk, mu, hist, recorderVars>>

\* GetInteraction returns, its deferred c.Unlock() runs; requestHandler goes
\* on to the real transport when the interaction was not found and the mode
\* records.
GetUnlock(p) ==
    /\ procs[p].pc = "get.unlock"
    /\ mu' = Deferred(mu, IF procs[p].ptr = 0 THEN ErrInteractionNotFound
                          ELSE NoErr)
    /\ IF procs[p].op = "RoundTrip" /\ procs[p].ptr = 0
          /\ recordsMiss(mode, cassette)
       THEN /\ procs' = [procs EXCEPT ![p].pc = "transport"]
            /\ hist' = hist
       ELSE /\ procs' = [procs EXCEPT ![p] = Idle]
            /\ hist' = Append(hist, Done("get", procs[p].ptr, FALSE))
    /\ UNCHANGED <<disk, cassette, recorderVars>>

\* The real transport returns the response; requestHandler makes the
\* interaction and calls AddInteraction.
TransportReturns(p) ==
    /\ procs[p].pc = "transport"
    /\ procs' = [procs EXCEPT
                    ![p].pc = "add.lock",
                    ![p].ia = <<NewInteraction(procs[p].req[1], NextPtr, FALSE)>>]
    /\ UNCHANGED <<disk, cassette, mu, hist, recorderVars>>

\* AddInteraction's i.ID = c.nextInteractionId.
AddAssignId(p) ==
    /\ procs[p].pc = "add.id"
    /\ procs' = [procs EXCEPT ![p].pc = "add.append",
                              ![p].ia[1].ID = cassette.nextInteractionId]
    /\ UNCHANGED <<disk, cassette, mu, hist, recorderVars>>

\* AddInteraction's increment of the counter and append.
AddAppend(p) ==
    /\ procs[p].pc = "add.append"
    /\ cassette' = appendAssigned(cassette, procs[p].ia[1])
    /\ procs' = [procs EXCEPT ![p].pc = "add.unlock"]
    /\ UNCHANGED <<disk, mu, hist, recorderVars>>

\* AddInteraction returns, its deferred c.Unlock() runs.
AddUnlock(p) ==
    /\ procs[p].pc = "add.unlock"
    /\ mu' = Deferred(mu, NoErr)
    /\ hist' = Append(hist, Done("add", procs[p].ia[1].ptr,
                                 procs[p].ia[1].DiscardOnSave))
    /\ procs' = [procs EXCEPT ![p] = Idle]
    /\ UNCHANGED <<disk, cassette, recorderVars>>

\* Save's loop and the assignment after it: c.Interactions becomes the
\* interactions kept, renumbered.  The loop runs with the mutex held, so no
\* call of another goroutine sees the cassette between two iterations.
SaveFilter(p) ==
    /\ procs[p].pc = "save.filter"
    /\ cassette' = [cassette EXCEPT !.Interactions = keep(cassette.Interactions, 0)]
    /\ procs' = [procs EXCEPT ![p].pc = "save.write"]
    /\ UNCHANGED <<disk, mu, hist, recorderVars>>

\* Save's yaml.Marshal, os.Create and writes.
SaveWrite(p) ==
    /\ procs[p].pc = "save.write"
    /\ disk' = writeFile(cassette, disk, "none").file
    /\ procs' = [procs EXCEPT ![p].pc = "save.unlock"]
    /\ UNCHANGED <<cassette, mu, hist, recorderVars>>

\* Save's os.Create fails: the file stays as it is and Save returns the
\* error.
SaveWriteFails(p) ==
    /\ procs[p].pc = "save.write"
    /\ disk' = writeFile(cassette, disk, "create").file
    /\ procs' = [procs EXCEPT ![p].pc = "save.failed"]
    /\ UNCHANGED <<cassette, mu, hist, recorderVars>>

\* Save returns, its deferred c.Unlock() runs.  Called by Stop, a Save
\* without error is followed by the OnRecorderStop hooks, and an error is
\* what Stop returns.
SaveUnlock(p) ==
    /\ procs[p].pc \in {"save.unlock", "save.failed"}
    /\ mu' = Deferred(mu, IF procs[p].pc = "save.failed"
                          THEN writeFile(cassette, disk, "create").err
                          ELSE NoErr)
    /\ IF procs[p].op = "Stop" /\ procs[p].pc = "save.unlock"
       THEN /\ procs' = [procs EXCEPT ![p].pc = "stop.onStop"]
            /\ hist' = hist
       ELSE /\ procs' = [procs EXCEPT ![p] = Idle]
            /\ hist' = Append(hist, Done(IF procs[p].op = "Stop" THEN "stop"
                                         ELSE "save", 0, FALSE))
    /\ UNCHANGED <<disk, cassette, recorderVars>>

\* Goroutine p calls rec.Stop(): os.Stat on the cassette file and the switch
\* on the mode.
CallStop(p) ==
    /\ MayCall(p)
    /\ procs' = [procs EXCEPT ![p] =
                    [Idle EXCEPT
                        !.pc = IF \/ mode \in {ModeRecordOnly,
                                                ModeReplayWithNewEpisodes}
                                  \/ (mode = ModeRecordOnce /\ ~disk.exists)
                               THEN "stop.beforeSave" ELSE "stop.onStop",
                        !.op = "Stop"]]
    /\ UNCHANGED <<disk, cassette, mu, hist, recorderVars>>

\* persistCassette's loop over rec.cassette.Interactions, which runs the
\* BeforeSave hooks on every interaction the cassette holds at this moment;
\* the mutex is not taken.  Then persistCassette calls Save, or returns the
\* error of a hook.
StopBeforeSave(p) ==
    /\ procs[p].pc = "stop.beforeSave"
    /\ LET b == applyHooksAll(hooks, cassette.Interactions, BeforeSaveHook, 1)
       IN  /\ cassette' = [cassette EXCEPT !.Interactions = b.is]
           /\ IF b.err = NoErr
              THEN /\ procs' = [procs EXCEPT ![p].pc = "save.lock"]
                   /\ hist' = hist
              ELSE /\ procs' = [procs EXCEPT ![p] = Idle]
                   /\ hist' = Append(hist, Done("stop", 0, FALSE))
    /\ UNCHANGED <<disk, mu, recorderVars>>

\* Stop's loop over rec.cassette.Interactions, which runs the OnRecorderStop
\* hooks; the mutex is not taken.  Then Stop returns.
StopOnStop(p) ==
    /\ procs[p].pc = "stop.onStop"
    /\ LET o == applyHooksAll(hooks, cassette.Interactions,
                              OnRecorderStopHook, 1)
       IN  cassette' = [cassette EXCEPT !.Interactions = o.is]
    /\ procs' = [procs EXCEPT ![p] = Idle]
    /\ hist' = Append(hist, Done("stop", 0, FALSE))
    /\ UNCHANGED <<disk, mu, recorderVars>>

\* The request of the direct calls of GetInteraction and AddInteraction, and
\* the requests given to RoundTrip.
CassetteRequest == GetFoo

ConcurrentRequests == {GetFoo, GetBar}

\* A recorder on a new cassette, used by several goroutines.
InitConcurrent ==
    /\ disk = NoFile
    /\ recState = "ready"
    /\ mode = ModeReplayWithNewEpisodes
    /\ blockUnsafeMethods = FALSE
    /\ skipRequestLatency = TRUE
    /\ passthroughs = <<>>
    /\ hooks = <<>>
    /\ cassette = New(CassetteName)
    /\ last = [NoOutcome EXCEPT !.op = "New"]
    /\ runLog = <<>>
    /\ clean = TRUE
    /\ stopped = FALSE
    /\ runs = 1
    /\ NoCalls

NextConcurrent ==
    \E p \in Goroutines :
       \/ CallGet(p, CassetteRequest)
       \/ \E d \in BOOLEAN : CallAdd(p, CassetteRequest, d)
       \/ CallSave(p)
       \/ \E r \in ConcurrentRequests : CallRoundTrip(p, r)
       \/ Acquire(p)
       \/ GetScan(p)
       \/ GetMark(p)
       \/ GetUnlock(p)
       \/ TransportReturns(p)
       \/ AddAssignId(p)
       \/ AddAppend(p)
       \/ AddUnlock(p)
       \/ SaveFilter(p)
       \/ SaveWrite(p)
       \/ SaveUnlock(p)

SpecConcurrent == InitConcurrent /\ [][NextConcurrent]_vars

\* The hooks of a recorder that marks what it saves and what it holds when
\* it is stopped.
StopHooks ==
    <<Hook("markSaved", BeforeSaveHook), Hook("markStopped", OnRecorderStopHook)>>

\* A recorder that records, on a new cassette with ReplayableInteractions,
\* used and stopped by several goroutines.
InitShared ==
    /\ disk = NoFile
    /\ recState = "ready"
    /\ mode \in {ModeRecordOnly, ModeRecordOnce}
    /\ blockUnsafeMethods = FALSE
    /\ skipRequestLatency = TRUE
    /\ passthroughs = <<>>
    /\ hooks = StopHooks
    /\ cassette = [New(CassetteName) EXCEPT !.ReplayableInteractions = TRUE]
    /\ last = [NoOutcome EXCEPT !.op = "New"]
    /\ runLog = <<>>
    /\ clean = TRUE
    /\ stopped = FALSE
    /\ runs = 1
    /\ NoCalls

\* A step inside a call that goroutine p has made.
Step(p) ==
    \/ Acquire(p)
    \/ GetScan(p)
    \/ GetMark(p)
    \/ GetUnlock(p)
    \/ TransportReturns(p)
    \/ AddAssignId(p)
    \/ AddAppend(p)
    \/ AddUnlock(p)
    \/ StopBeforeSave(p)
    \/ SaveFilter(p)
    \/ SaveWrite(p)
    \/ SaveUnlock(p)
    \/ StopOnStop(p)

NextShared ==
    \E p \in Goroutines :
       \/ CallRoundTrip(p, CassetteRequest)
       \/ CallStop(p)
       \/ Step(p)

SpecShared == InitShared /\ [][NextShared]_vars

\* One recorder on no cassette file that goroutines share: it looks up
\* every request and records the ones it does not find.
InitFair ==
    /\ disk = NoFile
    /\ recState = "ready"
    /\ mode = ModeRecordOnly
    /\ blockUnsafeMethods = FALSE
    /\ skipRequestLatency = TRUE
    /\ passthroughs = <<>>
    /\ hooks = StopHooks
    /\ cassette = [New(CassetteName) EXCEPT !.ReplayableInteractions = TRUE]
    /\ last = [NoOutcome EXCEPT !.op = "New"]
    /\ runLog = <<>>
    /\ clean = TRUE
    /\ stopped = FALSE
    /\ runs = 1
    /\ NoCalls

\* A step inside a call that goroutine p has made, Save's failure to create
\* the file included.
StepOrFail(p) == Step(p) \/ SaveWriteFails(p)

\* Goroutine p calls rec.RoundTrip, while calls are left to make.
FairRoundTrip(p) == Started < MaxFairCalls /\ CallRoundTrip(p, CassetteRequest)

\* Goroutine p calls rec.Stop, while calls are left to make.
FairStop(p) == Started < MaxFairCalls /\ CallStop(p)

NextFair ==
    \E p \in Goroutines : FairRoundTrip(p) \/ FairStop(p) \/ StepOrFail(p)

\* The scheduler lets every goroutine that can take a step take one, and the
\* real transport and the hooks return: weak fairness of each goroutine's
\* steps.
SpecFair ==
    InitFair /\ [][NextFair]_vars /\ \A p \in Goroutines : WF_vars(StepOrFail(p))

----------------------------------------------------------------------------
(* Properties *)

\* The step is a RoundTrip call.
IsRoundTrip == Len(runLog') = Len(runLog) + 1

\* The step is a Stop call.
IsStop == last'.op = "Stop" /\ runs' = runs /\ runLog' = runLog

\* The step is a call of recorder.New.
IsConstruction == runs' = runs + 1

\* The stored interactions whose request matches r as the client sent it.
Matching(c, r) ==
    {k \in 1..Len(c.Interactions) :
        ApplyMatcher(c.Matcher, withNoBody(r), c.Interactions[k].Request).ok}

\* The stored interactions a lookup of r may return: matching r and not yet
\* replayed (or replayable).
Qualifying(c, r) ==
    {k \in Matching(c, r) :
        c.ReplayableInteractions \/ ~c.Interactions[k].replayed}

Lowest(S) == CHOOSE k \in S : \A j \in S : k <= j

\* The n-th smallest member of S.
Nth(S, n) == CHOOSE k \in S : Cardinality({j \in S : j <= k}) = n

\* The recorder answers from the cassette only.
ReplaysOnly == mode = ModeReplayOnly \/ (mode = ModeRecordOnce /\ ~cassette.IsNew)

\* The recorder records every request that is not passed through.
Records == mode = ModeRecordOnly \/ (mode = ModeRecordOnce /\ cassette.IsNew)

\* The request of an interaction as the cassette file holds it, recorded from
\* request r.
FileRequest(r) == MarshalRequest(RecordedRequest(r))

NotDiscarded(i) == ~i.DiscardOnSave

IsBeforeSave(h) == h.Kind = BeforeSaveHook

\* Some passthrough predicate of ps returns true for r.
PassesThrough(ps, r) == \E k \in 1..Len(ps) : PassthroughFunc(ps[k], r)

\* The position of the first predicate of ps that returns true for r.
FirstPassing(ps, r) == Lowest({k \in 1..Len(ps) : PassthroughFunc(ps[k], r)})

\* C1: a lookup returns the lowest-position interaction that is not yet
\* replayed (or replayable) and matches the request, marks that interaction
\* replayed and no other, and fails with ErrInteractionNotFound, marking
\* nothing, when there is none.
C1_LookupReturnsFirstQualifying ==
    [][(IsRoundTrip /\ last'.lookups = 1) =>
          LET r == last'.req[1]
              q == Qualifying(cassette, r)
              n == Len(cassette.Interactions)
          IN  IF q # {}
              THEN /\ last'.err = NoErr
                   /\ last'.kind = "replayed"
                   /\ last'.idx = Lowest(q)
                   /\ cassette'.Interactions =
                         [cassette.Interactions EXCEPT ![Lowest(q)].replayed = TRUE]
              ELSE /\ last'.kind # "replayed"
                   /\ SubSeq(cassette'.Interactions, 1, n) = cassette.Interactions
                   /\ ReplaysOnly => /\ last'.err = ErrInteractionNotFound
                                     /\ cassette' = cassette]_vars

\* C1 witness: the second of three stored interactions was returned, the
\* first one being an equal request that was replayed before; the third is
\* left unmarked.
C1_Witness ==
    /\ last.op = "RoundTrip" /\ last.kind = "replayed" /\ last.idx = 2
    /\ ~cassette.ReplayableInteractions
    /\ Len(cassette.Interactions) = 3
    /\ cassette.Interactions[1].replayed
    /\ cassette.Interactions[1].Request = cassette.Interactions[2].Request
    /\ cassette.Interactions[3].Request = cassette.Interactions[2].Request
    /\ ~cassette.Interactions[3].replayed

\* C2: when a recorder that only replays is given the same request n times
\* in a row and k stored interactions match it, then without
\* ReplayableInteractions the n-th lookup returns the n-th matching
\* interaction in stored order while n <= k and fails with
\* ErrInteractionNotFound once n > k; with ReplayableInteractions every lookup
\* returns the first matching interaction.
C2_ConsecutiveLookups ==
    (/\ recState = "ready" /\ ReplaysOnly /\ last.op = "RoundTrip"
     /\ runLog # <<>>
     /\ \A j \in 1..Len(runLog) : runLog[j] = runLog[1]) =>
        LET m == Matching(cassette, runLog[1])
            n == Len(runLog)
        IN  IF cassette.ReplayableInteractions
            THEN m # {} => /\ last.err = NoErr
                           /\ last.kind = "replayed"
                           /\ last.idx = Lowest(m)
            ELSE IF n <= Cardinality(m)
                 THEN /\ last.err = NoErr
                      /\ last.kind = "replayed"
                      /\ last.idx = Nth(m, n)
                 ELSE last.err = ErrInteractionNotFound

\* C2 witness: two stored interactions match the request; it was looked up
\* three times without ReplayableInteractions, and the third lookup failed
\* after both interactions were returned.
C2_Witness ==
    /\ recState = "ready" /\ ReplaysOnly /\ ~cassette.ReplayableInteractions
    /\ last.op = "RoundTrip" /\ last.err = ErrInteractionNotFound
    /\ Len(runLog) = 3 /\ runLog[2] = runLog[1] /\ runLog[3] = runLog[1]
    /\ Matching(cassette, runLog[1]) = {1, 2}
    /\ cassette.Interactions[1].replayed /\ cassette.Interactions[2].replayed

\* C3: in ModeReplayOnly, and in ModeRecordOnce with a loaded cassette, a
\* request never reaches the real transport and never adds, removes or
\* replaces an interaction; with no qualifying interaction the caller gets
\* ErrInteractionNotFound.
C3_ReplayOnlyNeverRecords ==
    [][(IsRoundTrip /\ ReplaysOnly /\ ~PassesThrough(passthroughs, last'.req[1])) =>
          /\ last'.realCalls = 0
          /\ last'.kind # "recorded"
          /\ Len(cassette'.Interactions) = Len(cassette.Interactions)
          /\ \A k \in 1..Len(cassette.Interactions) :
                /\ cassette'.Interactions[k].Request = cassette.Interactions[k].Request
                /\ cassette'.Interactions[k].ID = cassette.Interactions[k].ID
          /\ Qualifying(cassette, last'.req[1]) = {} =>
                /\ last'.err = ErrInteractionNotFound
                /\ last'.resp = <<>>]_vars

\* C3 witness: a ModeRecordOnce recorder with a loaded, non-empty cassette
\* answered a request it has no interaction for with ErrInteractionNotFound.
C3_Witness ==
    /\ mode = ModeRecordOnce /\ recState = "ready" /\ ~cassette.IsNew
    /\ Len(cassette.Interactions) = 2
    /\ last.op = "RoundTrip" /\ last.err = ErrInteractionNotFound
    /\ last.realCalls = 0
    /\ Qualifying(cassette, last.req[1]) = {}

\* C4: in ModeReplayWithNewEpisodes a request is looked up; a hit is replayed
\* without a call of the real transport; a miss calls the real transport once
\* and appends one interaction for the request at the end, leaving the
\* interactions before it as they were; and the file Stop writes holds the
\* interactions of the file before, in their order, followed by the new ones.
C4_NewEpisodes ==
    [][/\ (IsRoundTrip /\ mode = ModeReplayWithNewEpisodes) =>
             LET n == Len(cassette.Interactions)
             IN  /\ last'.lookups = 1
                 /\ IF last'.kind = "replayed"
                    THEN /\ last'.realCalls = 0
                         /\ Len(cassette'.Interactions) = n
                    ELSE /\ last'.realCalls = 1
                         /\ Len(cassette'.Interactions) = n + 1
                         /\ SubSeq(cassette'.Interactions, 1, n) =
                               cassette.Interactions
                         /\ cassette'.Interactions[n + 1].Request =
                               RecordedRequest(last'.req[1])
       /\ (IsStop /\ mode = ModeReplayWithNewEpisodes /\ disk.exists) =>
             /\ Len(disk'.Interactions) = Len(cassette.Interactions)
             /\ SubSeq(disk'.Interactions, 1, Len(disk.Interactions)) =
                   disk.Interactions]_vars

\* C5: in ModeRecordOnly, and in ModeRecordOnce with a new cassette, without
\* ReplayableInteractions, every request calls the real transport once and
\* appends one interaction; the first Stop after k requests writes a file of
\* exactly their k interactions in request order; and a ModeRecordOnce
\* recorder that loaded a file replays the requests the file was recorded
\* from, asked in the file's order, without a call of the real transport.
C5_RecordThenReplay ==
    [][/\ (IsRoundTrip /\ Records /\ ~cassette.ReplayableInteractions) =>
             /\ last'.err = NoErr
             /\ last'.realCalls = 1
             /\ Len(cassette'.Interactions) = Len(cassette.Interactions) + 1
       /\ (IsStop /\ Records /\ ~cassette.ReplayableInteractions /\ ~stopped) =>
             /\ disk'.exists
             /\ Len(disk'.Interactions) = Len(runLog)
             /\ \A k \in 1..Len(runLog) :
                   disk'.Interactions[k].Request = FileRequest(runLog[k])
       /\ (/\ IsRoundTrip /\ mode = ModeRecordOnce /\ ~cassette.IsNew
           /\ ~cassette.ReplayableInteractions
           /\ Len(runLog') <= Len(disk.Interactions)
           /\ \A k \in 1..Len(runLog') :
                 disk.Interactions[k].Request = FileRequest(runLog'[k])) =>
             /\ last'.err = NoErr
             /\ last'.kind = "replayed"
             /\ last'.idx = Len(runLog')
             /\ last'.realCalls = 0]_vars

\* C6: every Stop in ModeRecordOnly and ModeReplayWithNewEpisodes saves the
\* cassette, the BeforeSave hooks having run on each interaction first; a
\* Stop in ModeRecordOnce saves it exactly when the cassette was new at
\* construction; a Stop in ModeReplayOnly, ModePassthrough or ModeRecordOnce
\* with a loaded cassette leaves the file as it is.
C6_StopPersistence ==
    [][IsStop =>
          LET n  == Len(cassette.Interactions)
              bs == SelectSeq(hooks, IsBeforeSave)
              persist == \/ mode \in {ModeRecordOnly, ModeReplayWithNewEpisodes}
                         \/ (mode = ModeRecordOnce /\ cassette.IsNew)
          IN  /\ last'.saveCalled = persist
              /\ persist =>
                    /\ disk'.exists
                    /\ Len(last'.hookRuns) >= n * Len(bs)
                    /\ \A j \in 1..(n * Len(bs)) :
                          last'.hookRuns[j] =
                             <<BeforeSaveHook, bs[((j - 1) % Len(bs)) + 1].Handler,
                               ((j - 1) \div Len(bs)) + 1>>
              /\ ~persist => disk' = disk]_vars

\* C7: recorder.New with a cassette name gives, by mode and by whether the
\* cassette file exists: ModeRecordOnly and ModePassthrough a new empty
\* cassette; ModeReplayOnly ErrCassetteNotFound without a file and the loaded
\* cassette with one; ModeReplayWithNewEpisodes and ModeRecordOnce a new
\* empty cassette without a file and the loaded cassette with one; any other
\* mode ErrInvalidMode.  A loaded cassette holds the file's interactions and
\* is not new; loading fails only on another format version.
C7_GetCassette ==
    [][(IsConstruction /\ cassette'.Name # "") =>
          LET fresh  == /\ last'.err = NoErr
                        /\ cassette'.IsNew
                        /\ cassette'.Interactions = <<>>
              loaded == /\ last'.err =
                              IF disk.truncated \/ disk.Version = CassetteFormatVersion
                              THEN NoErr ELSE ErrUnsupportedCassetteFormat
                        /\ last'.err = NoErr =>
                              /\ ~cassette'.IsNew
                              /\ [k \in 1..Len(cassette'.Interactions) |->
                                     Marshal(cassette'.Interactions[k])] =
                                    disk.Interactions
          IN  /\ CASE mode' = ModeRecordOnly -> fresh
                   [] mode' = ModeReplayOnly ->
                         IF disk.exists THEN loaded
                         ELSE last'.err = ErrCassetteNotFound
                   [] mode' \in {ModeReplayWithNewEpisodes, ModeRecordOnce} ->
                         IF disk.exists THEN loaded ELSE fresh
                   [] mode' = ModePassthrough -> fresh
                   [] OTHER -> last'.err = ErrInvalidMode
              /\ (recState' = "ready") = (last'.err = NoErr)
              /\ disk' = disk]_vars

\* C7 witness: ModeRecordOnly was constructed on an existing file of two
\* interactions and holds a new empty cassette.
C7_Witness ==
    /\ last.op = "New" /\ last.err = NoErr /\ mode = ModeRecordOnly
    /\ disk.exists /\ Len(disk.Interactions) = 2
    /\ cassette.IsNew /\ cassette.Interactions = <<>>

\* C8: a file written by Save holds the interactions not flagged
\* DiscardOnSave, in their order, with the ids 0..N-1 in file order; N is the
\* number of interactions held before minus the number flagged.
C8_SaveDiscardsAndRenumbers ==
    [][(IsStop /\ last'.saveCalled /\ last'.err = NoErr) =>
          LET before  == cassette.Interactions
              flagged == {k \in 1..Len(before) : before[k].DiscardOnSave}
              kept    == SelectSeq(before, NotDiscarded)
              file    == disk'.Interactions
          IN  /\ disk'.exists
              /\ Len(file) = Len(before) - Cardinality(flagged)
              /\ \A k \in 1..Len(file) :
                    /\ file[k].ID = k - 1
                    /\ file[k].Request = MarshalRequest(kept[k].Request)]_vars

\* C8 witness: of three recorded interactions the first and the third were
\* flagged; the file holds the second one alone, with id 0.
C8_Witness ==
    /\ last.op = "Stop" /\ last.saveCalled /\ last.err = NoErr
    /\ runLog = <<PostFoo, GetFoo, PostFoo>>
    /\ disk.exists /\ Len(disk.Interactions) = 1
    /\ disk.Interactions[1].ID = 0
    /\ disk.Interactions[1].Request = FileRequest(GetFoo)

\* C9: in ModePassthrough a request calls the real transport once and leaves
\* the cassette as it is, with no lookup and no hook run, and Stop neither
\* saves nor creates the cassette file.
C9_PassthroughMode ==
    [][/\ (IsRoundTrip /\ mode = ModePassthrough) =>
             /\ last'.realCalls = 1
             /\ last'.resp = <<ServerResponse(last'.req[1])>>
             /\ last'.lookups = 0
             /\ last'.hookRuns = <<>>
             /\ cassette' = cassette
             /\ cassette'.Interactions = <<>>
       /\ (IsStop /\ mode = ModePassthrough) =>
             /\ ~last'.saveCalled
             /\ disk' = disk]_vars

\* C9 witness: a ModePassthrough recorder with hooks answered two requests
\* from the server and was stopped, and there is no cassette file.
C9_Witness ==
    /\ mode = ModePassthrough /\ recState = "ready" /\ hooks = MarkHooks
    /\ last.op = "Stop" /\ Len(runLog) >= 2
    /\ cassette.Interactions = <<>>
    /\ ~disk.exists

\* C10: outside ModePassthrough, a request for which a passthrough predicate
\* returns true calls the real transport once and gets its response, with no
\* lookup, no hook run and the cassette left as it is; the predicates are
\* called in registration order up to the first that returns true; and the
\* file saved from a new cassette holds no request that a predicate returns
\* true for.
C10_PassthroughPredicates ==
    [][/\ (/\ IsRoundTrip /\ mode # ModePassthrough
           /\ PassesThrough(passthroughs, last'.req[1])) =>
             /\ last'.err = NoErr
             /\ last'.realCalls = 1
             /\ last'.resp = <<ServerResponse(last'.req[1])>>
             /\ last'.lookups = 0
             /\ last'.hookRuns = <<>>
             /\ cassette' = cassette
             /\ last'.passEvals =
                   SubSeq(passthroughs, 1, FirstPassing(passthroughs, last'.req[1]))
       /\ (/\ IsRoundTrip /\ mode # ModePassthrough
           /\ ~PassesThrough(passthroughs, last'.req[1])) =>
             last'.passEvals = passthroughs
       /\ (IsStop /\ last'.saveCalled /\ cassette.IsNew) =>
             \A k \in 1..Len(disk'.Interactions) :
                ~PassesThrough(passthroughs, disk'.Interactions[k].Request)]_vars

\* C10 witness: a ModeReplayOnly recorder with a loaded cassette passed a
\* request through on its second predicate, after the first returned false.
C10_Witness ==
    /\ mode = ModeReplayOnly /\ recState = "ready"
    /\ Len(cassette.Interactions) >= 1
    /\ last.op = "RoundTrip" /\ last.kind = "passthrough"
    /\ last.passEvals = <<"isBar", "isPost">>
    /\ last.realCalls = 1 /\ last.lookups = 0

\* C11: in ModeRecordOnly, and in ModeRecordOnce with a new cassette, with
\* ReplayableInteractions, N equal requests made one after another call the
\* real transport once and leave one interaction in the cassette: the first
\* request is recorded and every later one is answered from that recording.
C11_ReplayableRecording ==
    (/\ recState = "ready" /\ Records /\ cassette.ReplayableInteractions
     /\ last.op = "RoundTrip" /\ runLog # <<>>
     /\ \A j \in 1..Len(runLog) : runLog[j] = runLog[1]) =>
        /\ Len(cassette.Interactions) = 1
        /\ last.err = NoErr
        /\ last.idx = 1
        /\ last.resp = <<GetHTTPResponse(cassette.Interactions[1])>>
        /\ IF Len(runLog) = 1
           THEN last.kind = "recorded" /\ last.realCalls = 1
           ELSE last.kind = "replayed" /\ last.realCalls = 0

\* The capture of the request of outcome out failed: the real transport
\* returned an error, the unsafe-method guard rejected the request, the
\* response body could not be read, or an AfterCapture hook returned an error.
CaptureFailed(out) ==
    \/ out.err \in {ErrTransport, ErrUnsafeRequestMethod, ErrReadBody}
    \/ /\ out.err = ErrHook /\ out.hookRuns # <<>>
       /\ out.hookRuns[Len(out.hookRuns)][1] = AfterCaptureHook

\* The interaction requestHandler builds from request r and the server's
\* response, before the hooks.
Captured(r) ==
    [ID |-> 0, Request |-> RecordedRequest(r),
     Response |-> RecordedResponse(ServerResponse(r)),
     DiscardOnSave |-> FALSE, replayed |-> FALSE]

\* C12: a RoundTrip whose capture fails (the real transport returns an error,
\* the unsafe-method guard rejects the request, the response body cannot be
\* read, or an AfterCapture hook returns an error) returns that error and no
\* response and leaves the cassette as it was, interactions and id counter;
\* each of these failures makes the capture fail; and a capture that does not
\* fail appends one interaction and advances the id counter by one.
C12_CaptureAllOrNothing ==
    [][IsRoundTrip =>
          LET r == last'.req[1]
              notReplayed == last'.kind # "replayed" /\ last'.err # ErrInteractionNotFound
          IN  /\ CaptureFailed(last') =>
                    /\ cassette' = cassette
                    /\ last'.resp = <<>>
                    /\ last'.kind = "none"
              /\ (last'.realCalls = 1 /\ last'.env = "transportFails") =>
                    last'.err = ErrTransport
              /\ (last'.realCalls = 1 /\ last'.env = "readFails") =>
                    last'.err = ErrReadBody
              /\ (notReplayed /\ blockUnsafeMethods /\ r.Method \notin SafeMethods) =>
                    last'.err = ErrUnsafeRequestMethod /\ last'.realCalls = 0
              /\ (/\ last'.realCalls = 1 /\ last'.env = "ok"
                  /\ applyHooks(hooks, Captured(r), AfterCaptureHook).err # NoErr) =>
                    last'.err = ErrHook /\ CaptureFailed(last')
              /\ (last'.realCalls = 1 /\ ~CaptureFailed(last')) =>
                    /\ Len(cassette'.Interactions) = Len(cassette.Interactions) + 1
                    /\ cassette'.nextInteractionId = cassette.nextInteractionId + 1
                    /\ SubSeq(cassette'.Interactions, 1, Len(cassette.Interactions)) =
                          cassette.Interactions]_vars

\* C12 witness: a recorder holding two loaded interactions called the real
\* transport for a request it had no interaction left for, an AfterCapture
\* hook returned an error after another had run, and the cassette still holds
\* the two interactions and the id counter 2.
C12_Witness ==
    /\ last.op = "RoundTrip" /\ last.err = ErrHook /\ last.realCalls = 1
    /\ last.lookups = 1
    /\ last.hookRuns = <<<<AfterCaptureHook, "markCaptured", 0>>,
                         <<AfterCaptureHook, "failGet", 0>>>>
    /\ Len(cassette.Interactions) = 2 /\ cassette.nextInteractionId = 2

\* C13: a Save that succeeds leaves a file holding the whole newly serialised
\* cassette, and a Save that fails leaves the file as it was before the call,
\* neither truncated nor partly written.
C13_SaveAllOrNothing ==
    [][(IsStop /\ last'.saveCalled) =>
          IF last'.env = "none"
          THEN /\ disk'.exists /\ ~disk'.truncated
               /\ disk'.Version = cassette.Version
               /\ Len(disk'.Interactions) =
                     Len(SelectSeq(cassette.Interactions, NotDiscarded))
          ELSE /\ last'.err # NoErr
               /\ disk' = disk]_vars

\* C14: with the simulated latency enabled, a RoundTrip that has a stored
\* interaction to replay and whose request's context is cancelled before the
\* wait for the recorded duration has ended, the time of the wait included,
\* returns the context's error and no response.
C14_CancelledWait ==
    [][(/\ IsRoundTrip /\ ~skipRequestLatency
        /\ Qualifying(cassette, last'.req[1]) # {}
        /\ last'.env \in {"cancelled", "cancelledHandled", "cancelledWaiting"}) =>
          /\ last'.err = ErrContextCanceled
          /\ last'.resp = <<>>]_vars

OfKind(hs, kind) == SelectSeq(hs, LAMBDA h : h.Kind = kind)

\* C16: a Stop that saves runs the BeforeSave hooks once on every interaction,
\* right before the save, and the file carries their changes; no response
\* that a recorder returns for an interaction of its own run carries them.
C16_BeforeSave ==
    [][/\ (IsStop /\ last'.saveCalled) =>
             LET n  == Len(cassette.Interactions)
                 bs == OfKind(hooks, BeforeSaveHook)
             IN  /\ Len(last'.hookRuns) >= n * Len(bs)
                 /\ \A j \in 1..(n * Len(bs)) :
                       last'.hookRuns[j] =
                          <<BeforeSaveHook, bs[((j - 1) % Len(bs)) + 1].Handler,
                            ((j - 1) \div Len(bs)) + 1>>
                 /\ \A k \in 1..Len(disk'.Interactions) :
                       Mark("saved") \in disk'.Interactions[k].Response.Headers
       /\ (IsRoundTrip /\ cassette.IsNew /\ last'.resp # <<>>) =>
             Mark("saved") \notin last'.resp[1].Header]_vars

\* The runs of hooks of one kind among ran.
RanOfKind(ran, kind) == SelectSeq(ran, LAMBDA e : e[1] = kind)

\* The handlers of the hooks of hs of one kind, in registration order.
Handlers(hs, kind) ==
    [n \in 1..Len(OfKind(hs, kind)) |-> OfKind(hs, kind)[n].Handler]

\* C17: a RoundTrip runs the BeforeResponseReplay hooks exactly when a lookup
\* found the interaction it returns, on that interaction and as the last
\* thing before the response is made of it; it does not run them on an
\* interaction it has just recorded.
C17_BeforeResponseReplay ==
    [][IsRoundTrip =>
          LET brr == RanOfKind(last'.hookRuns, BeforeResponseReplayHook)
              hit == /\ last'.lookups = 1
                     /\ Qualifying(cassette, last'.req[1]) # {}
          IN  IF hit
              THEN /\ last'.kind = "replayed"
                   /\ last'.hookRuns =
                         tagRan(BeforeResponseReplayHook,
                                Handlers(hooks, BeforeResponseReplayHook),
                                last'.idx)
                   /\ last'.resp =
                         <<GetHTTPResponse(cassette'.Interactions[last'.idx])>>
              ELSE brr = <<>>]_vars

\* C18: a BeforeResponseReplay hook changes the response a replay returns and
\* not the cassette file: a Stop of a recorder that loaded the file and only
\* replayed from it leaves no change of the hook in the file that was not in
\* it before, and leaves the file as it is when it does not save.
C18_ReplayHookLeavesFile ==
    [][/\ (IsRoundTrip /\ last'.kind = "replayed"
           /\ OfKind(hooks, BeforeResponseReplayHook) # <<>>) =>
             Mark("replayed") \in last'.resp[1].Header
       /\ (/\ IsStop /\ ~cassette.IsNew
           /\ Len(cassette.Interactions) = Len(disk.Interactions)) =>
             /\ Len(disk'.Interactions) = Len(disk.Interactions)
             /\ \A k \in 1..Len(disk'.Interactions) :
                   Mark("replayed") \in disk'.Interactions[k].Response.Headers =>
                      Mark("replayed") \in disk.Interactions[k].Response.Headers
             /\ ~last'.saveCalled => disk' = disk]_vars

\* C19: the hooks invoked on an interaction for one kind are the hooks
\* registered with that kind, in registration order, up to and including the
\* first that returns an error; after an error no further hook runs, the
\* RoundTrip or Stop returns that error, RoundTrip returns no response, and a
\* Stop whose BeforeSave hook failed does not save.
C19_HookOrder ==
    [][(IsRoundTrip \/ IsStop) =>
          LET ran == last'.hookRuns
              n == Len(ran)
              on(e) == IF e[3] = 0 THEN Captured(last'.req[1])
                       ELSE IF e[1] = BeforeSaveHook
                            THEN cassette.Interactions[e[3]]
                            ELSE cassette'.Interactions[e[3]]
              pos(j) == Cardinality({i \in 1..j : /\ ran[i][1] = ran[j][1]
                                                   /\ ran[i][3] = ran[j][3]})
              fails(j) == HookFunc(ran[j][2], on(ran[j])).err # NoErr
          IN  /\ \A j \in 1..n :
                    LET hs == Handlers(hooks, ran[j][1])
                    IN  /\ pos(j) <= Len(hs)
                        /\ ran[j][2] = hs[pos(j)]
                        /\ fails(j) => j = n
                        /\ (~fails(j) /\ pos(j) < Len(hs)) =>
                              /\ j < n
                              /\ ran[j + 1] = <<ran[j][1], hs[pos(j) + 1], ran[j][3]>>
              /\ (n > 0 /\ fails(n)) =>
                    /\ last'.err = ErrHook
                    /\ last'.resp = <<>>
                    /\ ran[n][1] = AfterCaptureHook => cassette' = cassette
                    /\ ran[n][1] = BeforeSaveHook =>
                          ~last'.saveCalled /\ disk' = disk
              /\ last'.err = ErrHook => n > 0 /\ fails(n)]_vars

\* C19 witness: a Stop ran the three BeforeSave hooks on the first
\* interaction, with hooks of other kinds registered between them, and the
\* first two on the second interaction, where the second hook returned an
\* error; Stop returned that error and did not save.
C19_Witness ==
    /\ last.op = "Stop" /\ last.err = ErrHook /\ ~last.saveCalled
    /\ hooks = StopFaultHooks
    /\ last.hookRuns = <<<<BeforeSaveHook, "markSaved", 1>>,
                         <<BeforeSaveHook, "failPost", 1>>,
                         <<BeforeSaveHook, "noop", 1>>,
                         <<BeforeSaveHook, "markSaved", 2>>,
                         <<BeforeSaveHook, "failPost", 2>>>>

C21_IsRecording ==
    [][LET startedNew == cassette'.IsNew
           records == \/ mode' \in {ModeRecordOnly, ModeReplayWithNewEpisodes}
                      \/ (mode' = ModeRecordOnce /\ startedNew)
       IN  /\ (IsConstruction /\ recState' = "ready") =>
                 cassette'.IsNew = \/ ~disk.exists
                                   \/ mode' \in {ModeRecordOnly, ModePassthrough}
           /\ ~IsConstruction =>
                 cassette'.IsNew = cassette.IsNew /\ mode' = mode
           /\ last'.op = "IsRecording" => last'.recording = records
           /\ (~IsConstruction /\ recState = "ready" /\ ~records) =>
                 /\ Len(cassette'.Interactions) = Len(cassette.Interactions)
                 /\ cassette'.nextInteractionId = cassette.nextInteractionId]_vars

\* C21 witness: a ModeRecordOnce recorder that loaded a file of one
\* interaction was given a request it has no interaction for, was asked
\* IsRecording and answered false; the cassette holds the one interaction.
C21_Witness ==
    /\ mode = ModeRecordOnce /\ ~cassette.IsNew
    /\ last.op = "IsRecording" /\ ~last.recording
    /\ Len(cassette.Interactions) = 1
    /\ runLog # <<>>
    /\ Qualifying(cassette, runLog[Len(runLog)]) = {}
    /\ Matching(cassette, runLog[Len(runLog)]) = {}

\* The step is a call of cassette.Load right after a Save that succeeded.
IsLoadAfterSave == last'.op = "Load" /\ last.op = "Save" /\ last.err = NoErr

\* C22: a Load right after a Save yields the interactions the saved cassette
\* holds, in their order, with identical ids, requests and responses, all
\* with replayed and DiscardOnSave false; the loaded cassette is not new and
\* its id counter is the number of loaded interactions.
C22_SaveLoadRoundTrip ==
    [][IsLoadAfterSave =>
          LET saved  == cassette.Interactions
              loaded == cassette'.Interactions
          IN  /\ last'.err = NoErr
              /\ Len(loaded) = Len(saved)
              /\ \A k \in 1..Len(loaded) :
                    /\ loaded[k].ID = saved[k].ID
                    /\ loaded[k].Request = saved[k].Request
                    /\ loaded[k].Response = saved[k].Response
                    /\ ~loaded[k].replayed
                    /\ ~loaded[k].DiscardOnSave
              /\ ~cassette'.IsNew
              /\ cassette'.nextInteractionId = Len(loaded)]_vars

\* C22 as amended: a Load right after a Save yields the interactions the
\* cassette held before the Save that were not flagged DiscardOnSave, which
\* are those the saved cassette holds, in their order, with the ids 0..N-1
\* that Save gave them and with identical requests and responses except
\* that a nil collection of a request is loaded as an empty one; all with
\* replayed and DiscardOnSave false; the loaded cassette is not new and its
\* id counter is the number of loaded interactions.
C22_SaveLoadUpToNil ==
    [][IsLoadAfterSave =>
          LET saved  == cassette.Interactions
              kept   == SelectSeq(last.before, NotDiscarded)
              loaded == cassette'.Interactions
          IN  /\ last'.err = NoErr
              /\ Len(loaded) = Len(saved)
              /\ Len(loaded) = Len(kept)
              /\ \A k \in 1..Len(loaded) :
                    /\ loaded[k].ID = saved[k].ID
                    /\ loaded[k].ID = k - 1
                    /\ loaded[k].Request = MarshalRequest(saved[k].Request)
                    /\ loaded[k].Request = MarshalRequest(kept[k].Request)
                    /\ \A f \in DOMAIN loaded[k].Request :
                          \/ loaded[k].Request[f] = saved[k].Request[f]
                          \/ /\ saved[k].Request[f] = NilColl
                             /\ loaded[k].Request[f] = {}
                    /\ loaded[k].Response = saved[k].Response
                    /\ loaded[k].Response = kept[k].Response
                    /\ ~loaded[k].replayed
                    /\ ~loaded[k].DiscardOnSave
              /\ ~cassette'.IsNew
              /\ cassette'.nextInteractionId = Len(loaded)]_vars

\* C22 witness: a cassette of two interactions, the first one replayed, both
\* with a nil transfer encoding, was saved and loaded; the loaded cassette
\* holds two interactions, none replayed, with an empty transfer encoding and
\* the id counter 2.
C22_Witness ==
    /\ last.op = "Load" /\ last.err = NoErr
    /\ Len(last.before) = 2
    /\ last.before[1].replayed
    /\ last.before[1].Request.TransferEncoding = NilColl
    /\ Len(cassette.Interactions) = 2
    /\ ~cassette.Interactions[1].replayed
    /\ cassette.Interactions[1].Request.TransferEncoding = {}
    /\ ~cassette.IsNew /\ cassette.nextInteractionId = 2

\* The file holds a cassette of the supported version.
Loadable(file) == file.exists /\ file.Version = CassetteFormatVersion

\* C23: cassette.Load fails with ErrCassetteNotFound when the cassette file
\* is absent and with ErrUnsupportedCassetteFormat when the file's version is
\* not the supported one, and returns no cassette then; when it succeeds the
\* cassette is not new and its id counter is the number of interactions
\* loaded.
C23_LoadErrors ==
    [][last'.op = "Load" =>
          /\ ~disk.exists => last'.err = ErrCassetteNotFound
          /\ (disk.exists /\ disk.Version # CassetteFormatVersion) =>
                last'.err = ErrUnsupportedCassetteFormat
          /\ Loadable(disk) => last'.err = NoErr
          /\ last'.err # NoErr => last'.resp = <<>> /\ cassette' = cassette
          /\ last'.err = NoErr =>
                /\ last'.resp = <<cassette'>>
                /\ ~cassette'.IsNew
                /\ Len(cassette'.Interactions) = Len(disk.Interactions)
                /\ cassette'.nextInteractionId = Len(cassette'.Interactions)]_vars

\* C23 as amended: cassette.Load fails with the file system's error for a
\* missing file when the cassette file is absent and with
\* ErrUnsupportedCassetteFormat when the file's version is not the supported
\* one, and returns no cassette then; when it succeeds the cassette is not
\* new and its id counter is the number of interactions loaded.
C23_LoadNotExist ==
    [][last'.op = "Load" =>
          /\ ~disk.exists => last'.err = ErrNotExist
          /\ (disk.exists /\ disk.Version # CassetteFormatVersion) =>
                last'.err = ErrUnsupportedCassetteFormat
          /\ Loadable(disk) => last'.err = NoErr
          /\ last'.err # NoErr => last'.resp = <<>> /\ cassette' = cassette
          /\ last'.err = NoErr =>
                /\ last'.resp = <<cassette'>>
                /\ ~cassette'.IsNew
                /\ Len(cassette'.Interactions) = Len(disk.Interactions)
                /\ cassette'.nextInteractionId = Len(cassette'.Interactions)]_vars

\* C23 witness: Load was called on a file of another format version while the
\* cassette in use held two interactions; it returned
\* ErrUnsupportedCassetteFormat and no cassette.
C23_Witness ==
    /\ last.op = "Load" /\ last.err = ErrUnsupportedCassetteFormat
    /\ last.resp = <<>>
    /\ disk = OldFile
    /\ Len(cassette.Interactions) = 2 /\ cassette.IsNew

\* C24: with blockUnsafeMethods, a request whose method is not GET, HEAD,
\* OPTIONS or TRACE and that is on a path to the real transport (the record
\* path, ModePassthrough, a passthrough predicate that returns true) does
\* not reach it: RoundTrip returns ErrUnsafeRequestMethod and no response,
\* and appends nothing.  A request with a safe method on such a path reaches
\* the real transport as without the guard, and a replay is served from the
\* cassette whatever the method.
C24_BlockUnsafeMethods ==
    [][(IsRoundTrip /\ blockUnsafeMethods) =>
          LET r == last'.req[1]
              unsafe == r.Method \notin SafeMethods
              viaTransport == \/ mode = ModePassthrough
                              \/ PassesThrough(passthroughs, r)
                              \/ (~ReplaysOnly /\ last'.kind # "replayed")
          IN  /\ (unsafe /\ viaTransport) =>
                    /\ last'.err = ErrUnsafeRequestMethod
                    /\ last'.realCalls = 0
                    /\ last'.resp = <<>>
                    /\ Len(cassette'.Interactions) = Len(cassette.Interactions)
                    /\ cassette'.nextInteractionId = cassette.nextInteractionId
              /\ (~unsafe /\ viaTransport) =>
                    /\ last'.err = NoErr
                    /\ last'.realCalls = 1
                    /\ last'.resp # <<>>
              /\ last'.kind = "replayed" =>
                    /\ last'.err = NoErr
                    /\ last'.realCalls = 0
                    /\ last'.resp =
                          <<GetHTTPResponse(cassette'.Interactions[last'.idx])>>]_vars

\* Two collections hold the same entries, a nil one holding none.
ContentsEqual(x, y) == Encoded(x) = Encoded(y)

\* The form values of live request r: those r.ParseForm gives for a POST, PUT
\* or PATCH, and r.Form for any other method.
LiveForm(r) ==
    IF r.Method \in {"POST", "PUT", "PATCH"} THEN ParseForm(r).Form ELSE r.Form

\* Live request r and stored request i agree on every field the matcher
\* looks at, the headers named in ignore left aside.
Agree(ignore, r, i) ==
    /\ r.Method = i.Method
    /\ r.URL = i.URL
    /\ r.Proto = i.Proto
    /\ r.ProtoMajor = i.ProtoMajor
    /\ r.ProtoMinor = i.ProtoMinor
    /\ {e \in Encoded(r.Header) : e[1] \notin ignore} =
          {e \in Encoded(i.Headers) : e[1] \notin ignore}
    /\ BodyContent(r) = i.Body
    /\ r.ContentLength = i.ContentLength
    /\ ContentsEqual(r.TransferEncoding, i.TransferEncoding)
    /\ r.Host = i.Host
    /\ ContentsEqual(LiveForm(r), i.Form)
    /\ ContentsEqual(r.Trailer, i.Trailer)
    /\ r.RemoteAddr = i.RemoteAddr
    /\ r.RequestURI = i.RequestURI

\* Field f holds different values in live requests x and y; collections
\* differ when their entries do, bodies when their content does.
Differ(f, x, y) ==
    IF f \in {"Header", "TransferEncoding", "Form", "Trailer"}
    THEN ~ContentsEqual(x[f], y[f])
    ELSE IF f = "Body" THEN BodyContent(x) # BodyContent(y)
    ELSE x[f] # y[f]

StoredField(f) == IF f = "Header" THEN "Headers" ELSE f

LiveColl(f, r) == IF f = "Form" THEN LiveForm(r) ELSE r[f]

StopPersists ==
    \/ mode \in {ModeRecordOnly, ModeReplayWithNewEpisodes}
    \/ (mode = ModeRecordOnce /\ ~disk.exists)

\* C27: a Stop that persists writes the whole file anew from the cassette in
\* memory: afterwards the file exists, even when the cassette is empty, and
\* holds the interactions of the cassette that are not flagged DiscardOnSave,
\* in their order and nothing else, whatever the file held before; in
\* ModeRecordOnly the file holds requests of this run only.
C27_StopRewritesFile ==
    [][(IsStop /\ StopPersists) =>
          LET kept == SelectSeq(cassette.Interactions, NotDiscarded)
              mem  == cassette'.Interactions
              file == disk'.Interactions
          IN  /\ last'.saveCalled
              /\ disk'.exists /\ ~disk'.truncated
              /\ disk'.Version = CassetteFormatVersion
              /\ Len(file) = Len(kept)
              /\ \A k \in 1..Len(file) :
                    file[k].Request = MarshalRequest(kept[k].Request)
              /\ Len(mem) = Len(file)
              /\ \A k \in 1..Len(file) : file[k] = Marshal(mem[k])
              /\ (mode = ModeRecordOnly) =>
                    /\ Len(file) <= Len(runLog)
                    /\ \A k \in 1..Len(file) :
                          \E j \in 1..Len(runLog) :
                             file[k].Request = FileRequest(runLog[j])]_vars

\* A ModeRecordOnly recorder that handled no request was stopped while the
\* file held an interaction of an earlier run: the file is there and empty.
C27_Witness ==
    /\ last.op = "Stop" /\ last.saveCalled /\ last.err = NoErr
    /\ mode = ModeRecordOnly /\ runLog = <<>>
    /\ Len(last.before) = 1
    /\ last.before[1].Request = FileRequest(GetFoo)
    /\ cassette.Interactions = <<>>
    /\ disk.exists /\ disk.Interactions = <<>>

\* The pointers of the interactions the lookups that have returned found,
\* and the goroutines whose lookup has found one and not yet returned.
Returned == {k \in 1..Len(hist) : hist[k].kind = "get" /\ hist[k].ptr # 0}

Finding == {p \in Goroutines : procs[p].pc \in {"get.mark", "get.unlock"}
                                /\ procs[p].ptr # 0}

\* C28: without ReplayableInteractions, whatever the interleaving of the
\* goroutines' GetInteraction, AddInteraction, Save and RoundTrip calls, no
\* interaction is found by two lookups, neither by two that have returned
\* nor by two in progress nor by one of each; and no step clears the
\* replayed flag of an interaction.
C28_ReplayedOnce ==
    /\ [](~cassette.ReplayableInteractions =>
            /\ \A j, k \in Returned : hist[j].ptr = hist[k].ptr => j = k
            /\ \A p, q \in Finding : procs[p].ptr = procs[q].ptr => p = q
            /\ \A p \in Finding : \A k \in Returned :
                  hist[k].ptr # procs[p].ptr)
    /\ [][\A j \in 1..Len(cassette.Interactions) :
             \A k \in 1..Len(cassette'.Interactions) :
                (/\ cassette.Interactions[j].ptr = cassette'.Interactions[k].ptr
                 /\ cassette.Interactions[j].replayed)
                => cassette'.Interactions[k].replayed]_vars

\* Two goroutines look up the same request while the cassette holds one
\* interaction for it: the first has found and marked it and is about to
\* return it, the second waits for the mutex.
C28_Witness ==
    /\ ~cassette.ReplayableInteractions
    /\ procs[1].op = "GetInteraction" /\ procs[2].op = "GetInteraction"
    /\ procs[1].req = procs[2].req
    /\ procs[1].pc = "get.unlock" /\ procs[1].ptr = 1
    /\ procs[2].pc = "get.lock"
    /\ Len(cassette.Interactions) = 1
    /\ cassette.Interactions[1].replayed

\* The position of the interaction with pointer ptr in the cassette, 0 when
\* it is not there.
Position(ptr) ==
    IF \E k \in 1..Len(cassette.Interactions) :
          cassette.Interactions[k].ptr = ptr
    THEN CHOOSE k \in 1..Len(cassette.Interactions) :
            cassette.Interactions[k].ptr = ptr
    ELSE 0

\* Some Save has filtered the cassette's interactions.
Filtered ==
    \/ \E k \in 1..Len(hist) : hist[k].kind = "save"
    \/ \E p \in Goroutines : procs[p].pc \in {"save.write", "save.unlock"}

\* C29: in every state, whatever the interleaving of the goroutines' calls
\* and whatever the DiscardOnSave flags, the ids of the interactions in
\* memory increase with position, so no two are equal; an interaction whose
\* AddInteraction has returned is in the cassette, once, unless it was
\* flagged and a Save has dropped it; and the interactions are in the order
\* in which their AddInteraction calls returned.
C29_IdsAndAppends ==
    LET is == cassette.Interactions
    IN  /\ \A j, k \in 1..Len(is) : j < k => is[j].ID < is[k].ID
        /\ \A j, k \in 1..Len(is) : is[j].ptr = is[k].ptr => j = k
        /\ \A k \in Adds(hist) :
              (~hist[k].discard \/ ~Filtered) => Position(hist[k].ptr) # 0
        /\ \A j, k \in Adds(hist) :
              (j < k /\ Position(hist[j].ptr) # 0 /\ Position(hist[k].ptr) # 0)
              => Position(hist[j].ptr) < Position(hist[k].ptr)

\* Two AddInteraction calls ran at the same time and the one made second
\* returned first; then a Save dropped the flagged interaction of the call
\* made first: the cassette holds the other one, renumbered 0.
C29_Witness ==
    /\ Len(hist) = 3
    /\ hist[1] = Done("add", 2, FALSE)
    /\ hist[2] = Done("add", 1, TRUE)
    /\ hist[3].kind = "save"
    /\ Len(cassette.Interactions) = 1
    /\ cassette.Interactions[1].ptr = 2
    /\ cassette.Interactions[1].ID = 0
    /\ cassette.nextInteractionId = 2

\* Where a goroutine is while it holds the mutex, and while it waits for it.
Locked == {"get.scan", "get.mark", "get.unlock", "add.id", "add.append",
           "add.unlock", "save.filter", "save.write", "save.unlock",
           "save.failed"}

Waiting == {"get.lock", "add.lock", "save.lock"}

\* C30: no goroutine holds the cassette's mutex while it is in the real
\* transport; the goroutine that holds it is in a lookup, an append or a
\* save; and a goroutine that waits for the mutex while every other
\* goroutine is idle, waiting or in the real transport can take it.
C30_TransportUnlocked ==
    /\ \A p \in Goroutines : procs[p].pc = "transport" => mu # p
    /\ mu # 0 => procs[mu].pc \in Locked
    /\ \A q \in Goroutines :
          (/\ procs[q].pc \in Waiting
           /\ \A p \in Goroutines \ {q} :
                 procs[p].pc \in {"idle", "transport"} \cup Waiting)
          => ENABLED Acquire(q)

\* Two RoundTrip calls for different requests are in the real transport at
\* the same time.
C30_Witness ==
    /\ procs[1].pc = "transport" /\ procs[2].pc = "transport"
    /\ procs[1].req = <<GetFoo>> /\ procs[2].req = <<GetBar>>
    /\ mu = 0

\* Where a goroutine is when its next step reads or writes the cassette's
\* interaction list, id counter or replayed flags.
Accessing == {"get.scan", "get.mark", "add.id", "add.append", "save.filter",
              "save.write", "stop.beforeSave", "stop.onStop"}

\* C31: a goroutine whose next step reads or writes the interaction list,
\* the id counter or a replayed flag holds the cassette's mutex, so no two
\* goroutines are at such a step at the same time.
C31_LockedAccess ==
    /\ \A p \in Goroutines : procs[p].pc \in Accessing => mu = p
    /\ \A p, q \in Goroutines :
          (procs[p].pc \in Accessing /\ procs[q].pc \in Accessing) => p = q

\* C32: after the default matcher has compared a live request with a stored
\* one, whatever its answer, the live request's body reads as it did before
\* the call.
C32_MatcherKeepsBody ==
    (last.op = "Matcher") =>
        BodyContent(last.resp[1]) = BodyContent(last.req[1])

\* Some BeforeSave hook of the recorder returns an error for interaction i.
FailsBeforeSave(i) ==
    \E n \in 1..Len(hooks) :
       /\ hooks[n].Kind = BeforeSaveHook
       /\ HookFunc(hooks[n].Handler, i).err # NoErr

\* The positions of the interactions on which a BeforeSave hook fails.
FailingSave ==
    {k \in 1..Len(cassette.Interactions) :
        FailsBeforeSave(cassette.Interactions[k])}

\* C35: a Stop that persists and has a BeforeSave hook fail on some
\* interaction returns the hook's error; the last hook it ran is the failing
\* one, on the first interaction a hook fails on; it ran no BeforeSave hook
\* on a later interaction, which stays as it was, and no OnRecorderStop
\* hook; it did not call Save and the file is as before.
C35_BeforeSaveError ==
    [][(IsStop /\ StopPersists /\ FailingSave # {}) =>
          LET k0  == Lowest(FailingSave)
              ran == last'.hookRuns
              n   == Len(ran)
          IN  /\ last'.err = ErrHook
              /\ ~last'.saveCalled
              /\ disk' = disk
              /\ n > 0
              /\ \A j \in 1..n :
                    ran[j][1] = BeforeSaveHook /\ ran[j][3] <= k0
              /\ ran[n][3] = k0
              /\ HookFunc(ran[n][2], cassette.Interactions[k0]).err # NoErr
              /\ \A j \in 1..(n - 1) :
                    HookFunc(ran[j][2], cassette.Interactions[ran[j][3]]).err
                       = NoErr
              /\ Len(cassette'.Interactions) = Len(cassette.Interactions)
              /\ \A k \in 1..Len(cassette.Interactions) :
                    k > k0 => cassette'.Interactions[k] = cassette.Interactions[k]]_vars

\* A Stop failed in a BeforeSave hook on the first of two recorded
\* interactions: two hooks ran, both on the first; the second carries no
\* mark of a BeforeSave hook and there is no file.
C35_Witness ==
    /\ last.op = "Stop" /\ last.err = ErrHook /\ ~last.saveCalled
    /\ runLog = <<PostFoo, GetFoo>>
    /\ Len(cassette.Interactions) = 2
    /\ Len(last.hookRuns) = 2
    /\ last.hookRuns[2] = <<BeforeSaveHook, "failPost", 1>>
    /\ Mark("saved") \in cassette.Interactions[1].Response.Headers
    /\ Mark("saved") \notin cassette.Interactions[2].Response.Headers
    /\ ~disk.exists

\* C36: a RoundTrip whose request's context is cancelled before the call,
\* in a recorder not in ModePassthrough and with no passthrough predicate
\* true for the request, returns the context's error and no response, makes
\* no lookup and no real call, runs no hook, and leaves the cassette (list,
\* flags, id counter) and the file as they were.
C36_CancelledBefore ==
    [][(/\ IsRoundTrip /\ last'.env = "cancelled"
        /\ mode # ModePassthrough
        /\ ~PassesThrough(passthroughs, last'.req[1])) =>
          /\ last'.err = ErrContextCanceled
          /\ last'.resp = <<>>
          /\ last'.lookups = 0
          /\ last'.realCalls = 0
          /\ last'.hookRuns = <<>>
          /\ last'.kind = "none"
          /\ cassette' = cassette
          /\ disk' = disk]_vars

\* A ModeReplayWithNewEpisodes recorder that holds an interaction for GET
\* /foo, not replayed, was given GET /foo with a cancelled context: it
\* returned the context's error and the interaction is still not replayed.
C36_Witness ==
    /\ last.op = "RoundTrip" /\ last.env = "cancelled"
    /\ last.err = ErrContextCanceled
    /\ mode = ModeReplayWithNewEpisodes
    /\ last.req = <<GetFoo>>
    /\ Qualifying(cassette, GetFoo) # {}
    /\ Len(cassette.Interactions) = 1
    /\ ~cassette.Interactions[1].replayed

\* The file the current recorder loaded holds no interaction that matches r.
NotLoaded(r) ==
    /\ ~stopped
    /\ \A k \in 1..Len(disk.Interactions) :
          ~ApplyMatcher(cassette.Matcher, withNoBody(r), disk.Interactions[k].Request).ok

\* The requests given to the recorder so far, this one included, are all r.
SeriesOf(r) == \A j \in 1..Len(runLog') : runLog'[j] = r

\* C37: an interaction appended by the record path is not marked as replayed;
\* so in ModeReplayWithNewEpisodes with replayable interactions off, when the
\* loaded cassette holds no match for a request, a series of identical
\* requests alternates: the odd ones go to the real transport and are
\* recorded, the even ones are replayed from the recording just made.
C37_Alternates ==
    [][(/\ IsRoundTrip
        /\ mode = ModeReplayWithNewEpisodes
        /\ ~cassette.ReplayableInteractions
        /\ last'.env = "ok"
        /\ NotLoaded(last'.req[1])
        /\ SeriesOf(last'.req[1])) =>
          IF Len(runLog') % 2 = 1
          THEN /\ last'.kind = "recorded"
               /\ last'.realCalls = 1
               /\ Len(cassette'.Interactions) = Len(cassette.Interactions) + 1
               /\ ~cassette'.Interactions[Len(cassette'.Interactions)].replayed
          ELSE /\ last'.kind = "replayed"
               /\ last'.realCalls = 0
               /\ last'.idx = Len(cassette.Interactions)
               /\ cassette'.Interactions[last'.idx].replayed
               /\ Len(cassette'.Interactions) = Len(cassette.Interactions)]_vars

\* The goroutines whose RoundTrip has the real transport's response and has
\* not yet returned from AddInteraction.
Recording ==
    {p \in Goroutines :
        procs[p].pc \in {"add.lock", "add.id", "add.append", "add.unlock"}}

\* C33: in ModeRecordOnly, or ModeRecordOnce with a new cassette, with
\* replayable interactions on, identical requests cause at most one call of
\* the real transport and at most one recorded interaction, also when they
\* are issued concurrently.
C33_OneRealCall ==
    /\ Cardinality(Recording) + Cardinality(Adds(hist)) <= 1
    /\ Len(cassette.Interactions) <= 1

\* C34: every interaction a Stop writes to the cassette file has passed the
\* BeforeSave hooks, also when requests are recorded while Stop runs.  The
\* recorder's BeforeSave hook adds the mark "saved".
C34_SavedAreHooked ==
    \A k \in 1..Len(disk.Interactions) :
        Mark("saved") \in disk.Interactions[k].Response.Headers

\* The positions of the interactions of is that are flagged DiscardOnSave.
Flagged(is) == {k \in 1..Len(is) : is[k].DiscardOnSave}

\* The calls of OnRecorderStop hooks among the hook calls ran.
StopVisits(ran) == {n \in 1..Len(ran) : ran[n][1] = OnRecorderStopHook}

\* C38: Save removes the interactions flagged DiscardOnSave from the
\* cassette in memory too and renumbers the ids there.  Before Save a lookup
\* returns a flagged interaction as any other; after a Stop that has saved,
\* the cassette in memory holds the unflagged interactions only, numbered
\* from 0, and the OnRecorderStop hooks of that Stop visit only those.
C38_DiscardedFromMemory ==
    [][/\ (/\ IsRoundTrip
           /\ mode = ModeReplayWithNewEpisodes
           /\ Qualifying(cassette, last'.req[1]) # {}) =>
             /\ last'.kind = "replayed"
             /\ last'.idx = Lowest(Qualifying(cassette, last'.req[1]))
       /\ (IsStop /\ last'.saveCalled /\ last'.err = NoErr) =>
             /\ Flagged(cassette'.Interactions) = {}
             /\ Len(cassette'.Interactions) =
                   Len(cassette.Interactions)
                   - Cardinality(Flagged(cassette.Interactions))
             /\ \A k \in 1..Len(cassette'.Interactions) :
                   /\ cassette'.Interactions[k].ID = k - 1
                   /\ Mark("stopped") \in cassette'.Interactions[k].Response.Headers
             /\ Cardinality(StopVisits(last'.hookRuns)) =
                   Len(cassette'.Interactions)
             /\ \A r \in DiscardRequests :
                   \A k \in Matching(cassette', r) :
                      k \notin Flagged(cassette'.Interactions)]_vars

\* A POST was recorded and flagged, the same POST was replayed from the
\* flagged interaction, a GET was recorded, and Stop has saved: the cassette
\* in memory holds the GET's interaction only.
C38_Witness ==
    /\ last.op = "Stop" /\ last.saveCalled /\ last.err = NoErr
    /\ mode = ModeReplayWithNewEpisodes /\ runs = 1
    /\ runLog = <<PostFoo, PostFoo, GetFoo>>
    /\ Len(cassette.Interactions) = 1
    /\ cassette.Interactions[1].ID = 0
    /\ Cardinality(StopVisits(last.hookRuns)) = 1

\* C39: every RoundTrip call and every Stop call eventually returns, and the
\* cassette's mutex is free once the calls have returned: no interleaving
\* of concurrent calls waits for the mutex for ever, and the mutex is
\* released on every path, the lookup that misses and the Save that fails
\* included.
C39_CallsReturn ==
    /\ []((\A p \in Goroutines : procs[p].pc = "idle") => mu = 0)
    /\ \A p \in Goroutines : (procs[p].pc # "idle") ~> (procs[p].pc = "idle")

\* A Stop whose Save failed has returned, a RoundTrip has then added its
\* interaction, and the mutex is free.
C39_Witness ==
    /\ \A p \in Goroutines : procs[p].pc = "idle"
    /\ mu = 0
    /\ ~disk.exists
    /\ Len(hist) >= 2
    /\ hist[1].kind = "stop"
    /\ hist[2].kind = "add"
====
